---- MODULE Spec2Model ----
(***************************************************************************)
(* Model of the BrightPearl client: the request loop with its rate limiter *)
(* and retry classification (base_client.py), the disk cache, the product  *)
(* page walk, the availability lookup and the stock correction (client.py).*)
(*                                                                         *)
(* One client is used by one sequential caller.  A top-level operation     *)
(* runs from call to return/raise; it is cut into steps at the only places *)
(* where the environment answers: one step is one iteration of the attempt *)
(* loop of _make_request together with all the code that runs after it up  *)
(* to the next transport invocation (or to the end of the operation).      *)
(* Time is counted in whole seconds; it passes while the client sleeps,    *)
(* while a transport call is in flight and while the client is idle.       *)
(***************************************************************************)
EXTENDS Integers, Sequences, FiniteSets, TLC

VARIABLES
    clients,            \* the client instances that exist, in order of construction
    max_retries,        \* self._config.max_retries
    rate_limit,         \* self._config.rate_limit
    now,                \* time.time()
    last_request_time,  \* self._last_request_time
    cache,              \* the files of self._cache_dir, by cache key
    stock,              \* service side: on-hand per product at the warehouse
    service,            \* service side: the product rows and how they are paged
    op,                 \* the running (or last finished) top-level operation
    req,                \* the running _make_request call
    hist,               \* what the transport and the sleeps have seen
    callers             \* the concurrent callers of one client: where each of
                        \* them is in its call, and its local variables

vars == <<clients, max_retries, rate_limit, now, last_request_time, cache, stock, service, op,
          req, hist, callers>>

----------------------------------------------------------------------------
(* Bounds of the model *)

MaxRetries == 3        \* largest configured max_retries
MaxRateLimit == 2      \* largest configured rate_limit (seconds)
MaxLatency == 1        \* longest time one transport call takes (seconds)
MaxIdle == 2           \* longest pause between two calls on the client (seconds)
MaxCalls == 2          \* consecutive _make_request callers on one client
MaxQty == 1            \* largest desired quantity
MaxBatch == 2          \* longest input list of an operation
ServerPageCap == 2     \* the service never returns more rows per page
MaxFaults == 2         \* answers other than a success in a run of repeated calls
MaxRecords == 5        \* most product rows of a service whose rows vary
ManyRecords == 1200    \* product rows of the one large service
MaxPages == 4          \* page requests of one walk that are followed
MaxCacheCalls == 3     \* consecutive calls of the cache functions on one client
MaxLiveCalls == 3      \* consecutive get_all_live_products calls on one client
MaxClock == 6          \* the last second of a run of concurrent callers

----------------------------------------------------------------------------
(* Program constants *)

products_per_page == 500
default_timeout == 30
default_max_retries == 3
default_rate_limit == 1
live_products_cache_minutes == 60
availability_cache_minutes == 15
warehouse_id == 3

----------------------------------------------------------------------------
(* The service's catalogue: rows of /product-service/product-search *)

\* metaData.columns of the search answer, and one row per product
Columns == << "productId", "SKU", "productStatus", "stockTracked" >>

Catalogue ==
    << << 1, "A", "LIVE", TRUE >>,
       << 2, "B", "LIVE", TRUE >>,
       << 3, "C", "LIVE", FALSE >>,
       << 4, "D", "ARCHIVED", TRUE >> >>

ProductIds == {Catalogue[i][1] : i \in 1..Len(Catalogue)}

\* the product search of a service: its rows, the most rows it puts on a page,
\* and whether morePagesAvailable tells the truth ("honest") or is always true
\* ("always": a page beyond the last row is empty, and its lastResult is its
\* firstResult)
DefaultService == [rows |-> Catalogue, cap |-> ServerPageCap, more |-> "honest"]

\* availability of one product: its "warehouses" object, keyed by the number
\* of the warehouse as a string, which has an entry for warehouse_id or is empty
InStock(q) == (ToString(warehouse_id) :> [onHand |-> q])
NoWarehouses == << >>

----------------------------------------------------------------------------
(* Sequence helpers *)

Range(seq) == {seq[i] : i \in 1..Len(seq)}

Min(a, b) == IF a < b THEN a ELSE b

----------------------------------------------------------------------------
(* Transport outcomes: what one requests.get / requests.post can do *)

Statuses == {200, 207, 302, 404, 429, 500}

OkStatuses == {200, 207}

\* shape of the decoded body of a 200/207 answer: a JSON list, an object with
\* a "response" field holding a list, an object with a "response" field
\* holding an object, an object without "response", or text that is not JSON
Shapes == {"list", "wrapped_list", "wrapped_dict", "object", "text"}

Outcome(kind, status, shape, count) ==
    [kind |-> kind, status |-> status, shape |-> shape, count |-> count, text |-> "none"]

\* a RequestException that is neither a Timeout nor an HTTPError; text is str(e)
Failure(text) == [Outcome("failure", 0, "none", 0) EXCEPT !.text = text]

\* every outcome of one transport call
AllOutcomes ==
    {Outcome("timeout", 0, "none", 0), Failure("Connection refused"),
     Failure("Name or service not known")}
    \cup {Outcome("httperror", st, "none", 0) : st \in Statuses \ OkStatuses}
    \cup {Outcome("response", st, "none", 0) : st \in Statuses \ OkStatuses}
    \cup {Outcome("response", st, sh, 0) : st \in OkStatuses, sh \in Shapes}

\* the outcomes that differ in how long the client sleeps
TimedOutcomes ==
    {Outcome("timeout", 0, "none", 0), Outcome("httperror", 429, "none", 0),
     Outcome("response", 500, "none", 0), Outcome("response", 200, "wrapped_dict", 0)}

\* the outcomes between which the callers inside the client can tell; count
\* is the number of correction ids in a list answer of the correction endpoint
Outcomes(endpoint, n) ==
    IF endpoint = "plain" THEN AllOutcomes
    ELSE IF endpoint = "timed" THEN TimedOutcomes
    ELSE {Outcome("timeout", 0, "none", 0), Outcome("response", 500, "none", 0),
          Outcome("response", 200, "object", 0)}
         \cup (IF endpoint = "post"
               THEN {Outcome("response", 200, "list", 0),
                     Outcome("response", 200, "list", n),
                     Outcome("response", 207, "wrapped_list", n),
                     Outcome("response", 200, "wrapped_dict", 0)}
                    \cup {Outcome("response", 200, "list", k) : k \in 1..(n - 1)}
               ELSE {Outcome("response", 200, "wrapped_dict", 0)})

Latencies(endpoint) == IF endpoint = "timed" THEN 0..MaxLatency ELSE {0}

----------------------------------------------------------------------------
(* Retry classification *)

Retry(delay) == [act |-> "retry", delay |-> delay, exc |-> "none", msg |-> "none"]
Fail(exc, msg) == [act |-> "raise", delay |-> 0, exc |-> exc, msg |-> msg]
Done == [act |-> "return", delay |-> 0, exc |-> "none", msg |-> "none"]

_handle_http_error(status, attempt) ==
    IF status = 429 THEN Retry((attempt + 1) * (attempt + 1))
    ELSE IF 400 <= status /\ status < 500 THEN Fail("BrightPearlApiError", "Client error")
    ELSE IF 500 <= status /\ status < 600 THEN Fail("BrightPearlApiError", "Server error")
    ELSE Fail("BrightPearlApiError", "Unexpected HTTP error")

\* a payload of the wrong shape for a list is taken for a transient failure
Decode_ShapeRetried(response_model, shape) ==
    IF response_model = "dict" THEN Done
    ELSE IF response_model = "list"
         THEN IF shape \in {"list", "wrapped_list", "wrapped_dict"} THEN Done
              ELSE Retry(0)
    ELSE IF shape = "wrapped_dict" THEN Done
         ELSE Fail("ValidationError", "response_model")

\* response_model(**response_data) of the typed models requested here
\* (BrightPearlApiResponse, ProductSearchResponse, ProductAvailabilityResponse),
\* which need an object with a "response" field holding an object
Decode(response_model, shape) ==
    IF response_model = "dict" THEN Done
    ELSE IF response_model = "list"
         THEN IF shape = "list" THEN Done
              ELSE IF shape \in {"wrapped_list", "wrapped_dict"} THEN Done
              ELSE Fail("BrightPearlApiError", "Unexpected response format")
    ELSE IF shape = "wrapped_dict" THEN Done
         ELSE Fail("ValidationError", "response_model")

(* Variants of the classification with one slip each *)

\* "except Timeout" re-raises instead of logging
Classify_TimeoutRaises(o, attempt, response_model) ==
    IF o.kind = "timeout" THEN Fail("BrightPearlApiError", "Request timed out")
    ELSE IF o.kind = "httperror" THEN _handle_http_error(o.status, attempt)
    ELSE IF o.kind = "failure"
         THEN IF attempt = max_retries - 1
              THEN Fail("BrightPearlApiError", "Request failed after attempts: " \o o.text)
              ELSE Retry(0)
    ELSE IF o.status # 200 /\ o.status # 207
         THEN Fail("BrightPearlApiError", "API Error")
         ELSE Decode(response_model, o.shape)

\* "except Timeout" backs off like the 429 branch
Classify_TimeoutBacksOff(o, attempt, response_model) ==
    IF o.kind = "timeout" THEN Retry((attempt + 1) * (attempt + 1))
    ELSE IF o.kind = "httperror" THEN _handle_http_error(o.status, attempt)
    ELSE IF o.kind = "failure"
         THEN IF attempt = max_retries - 1
              THEN Fail("BrightPearlApiError", "Request failed after attempts: " \o o.text)
              ELSE Retry(0)
    ELSE IF o.status # 200 /\ o.status # 207
         THEN Fail("BrightPearlApiError", "API Error")
         ELSE Decode(response_model, o.shape)

\* server errors are retried
Classify_RetriesServerError(o, attempt, response_model) ==
    IF o.kind = "timeout" THEN Retry(0)
    ELSE IF o.kind = "httperror" THEN _handle_http_error(o.status, attempt)
    ELSE IF o.kind = "failure"
         THEN IF attempt = max_retries - 1
              THEN Fail("BrightPearlApiError", "Request failed after attempts: " \o o.text)
              ELSE Retry(0)
    ELSE IF o.status >= 500 THEN Retry(0)
    ELSE IF o.status # 200 /\ o.status # 207
         THEN Fail("BrightPearlApiError", "API Error")
         ELSE Decode(response_model, o.shape)

\* the last attempt is taken to be number max_retries
Classify_LastAttemptOffByOne(o, attempt, response_model) ==
    IF o.kind = "timeout" THEN Retry(0)
    ELSE IF o.kind = "httperror" THEN _handle_http_error(o.status, attempt)
    ELSE IF o.kind = "failure"
         THEN IF attempt = max_retries
              THEN Fail("BrightPearlApiError", "Request failed after attempts: " \o o.text)
              ELSE Retry(0)
    ELSE IF o.status # 200 /\ o.status # 207
         THEN Fail("BrightPearlApiError", "API Error")
         ELSE Decode(response_model, o.shape)

\* only statuses from 400 on are errors
Classify_AcceptsBelow400(o, attempt, response_model) ==
    IF o.kind = "timeout" THEN Retry(0)
    ELSE IF o.kind = "httperror" THEN _handle_http_error(o.status, attempt)
    ELSE IF o.kind = "failure"
         THEN IF attempt = max_retries - 1
              THEN Fail("BrightPearlApiError", "Request failed after attempts: " \o o.text)
              ELSE Retry(0)
    ELSE IF o.status >= 400
         THEN Fail("BrightPearlApiError", "API Error")
         ELSE Decode(response_model, IF o.shape = "none" THEN "text" ELSE o.shape)

\* the body of the try block after the transport call, and the except clauses
Classify(o, attempt, response_model) ==
    IF o.kind = "timeout" THEN Retry(0)
    ELSE IF o.kind = "httperror" THEN _handle_http_error(o.status, attempt)
    ELSE IF o.kind = "failure"
         THEN IF attempt = max_retries - 1
              THEN Fail("BrightPearlApiError", "Request failed after attempts: " \o o.text)
              ELSE Retry(0)
    ELSE IF o.status # 200 /\ o.status # 207
         THEN Fail("BrightPearlApiError", "API Error")
         ELSE Decode(response_model, o.shape)

----------------------------------------------------------------------------
(* The state as one record, so that the code of an operation can be written *)
(* as a function from state to state                                        *)

(* Client instances: client.py, BrightPearlClient.__init__ *)

\* hashlib.md5(brightpearl_app_ref.encode()).hexdigest()[:8], for the
\* application references of the model
_generate_cache_prefix(brightpearl_app_ref) ==
    CASE brightpearl_app_ref = "my_app" -> "4d95db28"
      [] brightpearl_app_ref = "other_app" -> "e636b73d"
      [] brightpearl_app_ref = "app_111460" -> "527110e7"
      [] brightpearl_app_ref = "app_126274" -> "527110e7"
      [] brightpearl_app_ref = "" -> "d41d8cd9"

\* a constructed instance: its _config and its _cache_prefix
Client(api_base_url, brightpearl_app_ref, brightpearl_account_token, timeout) ==
    [api_base_url |-> api_base_url,
     brightpearl_app_ref |-> brightpearl_app_ref,
     brightpearl_account_token |-> brightpearl_account_token,
     timeout |-> timeout,
     cache_prefix |-> _generate_cache_prefix(brightpearl_app_ref)]

DefaultClient ==
    Client("https://ws-use.brightpearl.com/public-api/acme", "my_app", "token-acme",
           default_timeout)

\* f"{self._cache_prefix}_{cache_key}_cache.json"
_get_cache_filename(client, cache_key) ==
    client.cache_prefix \o "_" \o cache_key \o "_cache.json"

\* a float: a number, or not a number
Float(value) == [nan |-> FALSE, value |-> value]
NaN == [nan |-> TRUE, value |-> 0]

\* v <= n for a float v: a comparison with NaN is false
FloatLessEq(v, n) == ~v.nan /\ v.value <= n

StartsWith(str, prefix) ==
    Len(str) >= Len(prefix) /\ SubSeq(str, 1, Len(prefix)) = prefix

Scheme(url) ==
    IF StartsWith(url, "https://") THEN "https://"
    ELSE IF StartsWith(url, "http://") THEN "http://"
    ELSE ""

AfterScheme(url) == SubSeq(url, Len(Scheme(url)) + 1, Len(url))

\* HttpUrl accepts the string: an http or https scheme and a host
IsHttpUrl(url) ==
    /\ Scheme(url) # ""
    /\ AfterScheme(url) # ""
    /\ SubSeq(AfterScheme(url), 1, 1) # "/"

\* str(v) of the parsed URL: a URL without a path gets the path "/"
UrlStr(url) ==
    IF \E i \in 1..Len(AfterScheme(url)) : SubSeq(AfterScheme(url), i, i) = "/"
    THEN url
    ELSE url \o "/"

RECURSIVE rstrip(_, _)
rstrip(str, char) ==
    IF Len(str) > 0 /\ SubSeq(str, Len(str), Len(str)) = char
    THEN rstrip(SubSeq(str, 1, Len(str) - 1), char)
    ELSE str

\* str(v).rstrip('/')
remove_trailing_slash(v) == rstrip(UrlStr(v), "/")

\* the fields for which BrightPearlClientConfig(**kwargs) reports an error
ValidationErrors(kwargs) ==
    (IF IsHttpUrl(kwargs.api_base_url) THEN {} ELSE {"api_base_url"})
    \cup (IF kwargs.timeout <= 0 THEN {"timeout"} ELSE {})
    \cup (IF kwargs.max_retries <= 0 THEN {"max_retries"} ELSE {})
    \cup (IF FloatLessEq(kwargs.rate_limit, 0) THEN {"rate_limit"} ELSE {})

\* the validated configuration
BrightPearlClientConfig(kwargs) ==
    Client(remove_trailing_slash(kwargs.api_base_url), kwargs.brightpearl_app_ref,
           kwargs.brightpearl_account_token, kwargs.timeout)
    @@ [max_retries |-> kwargs.max_retries, rate_limit |-> kwargs.rate_limit]

\* the JSON documents the client stores: a list of product objects or the
\* availability object of one product
JsonList(list) == [list |-> list, dict |-> [warehouses |-> << >>]]
JsonDict(dict) == [list |-> << >>, dict |-> dict]

\* the return value of _get_cached_data: None, or the document of the file
None == [some |-> FALSE, data |-> JsonList(<< >>)]

State ==
    [now |-> now, last |-> last_request_time, cache |-> cache, stock |-> stock,
     service |-> service, op |-> op, req |-> req, hist |-> hist, clients |-> clients]

NoReq ==
    [active |-> FALSE, method |-> "none", model |-> "none", endpoint |-> "none",
     attempt |-> 0, body |-> << >>]

NoOp ==
    [name |-> "none", status |-> "idle", exc |-> "none", msg |-> "none",
     \* get_all_live_products / _fetch_all_live_products
     live_ctx |-> "none",            \* who called get_all_live_products
     include_non_stock_tracked |-> FALSE,
     all_products |-> << >>, first_result |-> 0,
     pages |-> << >>,                \* firstResult of the page requests made
     live_products |-> << >>,        \* its return value
     \* get_product_availability
     gpa_caller |-> "none", product_ids |-> << >>, cache_minutes |-> 0,
     uncached_product_ids |-> << >>,
     result |-> << >>,               \* its return value, by product id
     \* stock_correction / apply_stock_correction
     corrections |-> << >>, location |-> "none",
     formatted_corrections |-> << >>,
     response |-> 0,                 \* number of correction ids returned
     \* _save_to_cache / _get_cached_data called on their own
     cache_key |-> "none",
     client |-> 1,                   \* the instance the call is made on
     cached |-> None,                \* the return value of _get_cached_data
     \* get_orders_by_status
     status_id |-> [type |-> "NoneType", value |-> 0],
     \* __init__
     kwargs |-> << >>]

NoFin ==
    [status |-> "none", exc |-> "none", msg |-> "none", trace |-> << >>,
     backoffs |-> << >>, calls |-> 0, waits |-> 0, model |-> "none",
     method |-> "none"]

NoHist ==
    [trace |-> << >>,       \* outcomes of the transport in this _make_request
     backoffs |-> << >>,    \* time.sleep calls of _handle_http_error in it
     calls |-> 0,           \* transport invocations in it
     waits |-> 0,           \* _respect_rate_limit calls in it
     fin |-> NoFin,         \* the last _make_request call that has ended
     lastInvoke |-> 0,      \* start of the last transport invocation
     invokes |-> 0,         \* transport invocations of this client, up to 2
     interval |-> 0,        \* time between the starts of the last two
     spacing |-> 0,         \* time between the last two rate limiter returns
     posts |-> << >>,       \* POST bodies sent by the running operation
     asked |-> << >>,       \* ids of its availability invocations, one list each
     before |-> "none",     \* how the call ended that a repeated call repeats
     steps |-> << >>,       \* steps of the running stock_correction, in order
     faults |-> 0,          \* answers other than a success, where they are counted
     saved |-> << >>,       \* by cache key: the last document saved, when, and
                            \* the number of saves, where they are recorded
     nops |-> 0]            \* top-level operations started so far

----------------------------------------------------------------------------
(* Rate limiter *)

\* the timestamp is recorded without sleeping
_respect_rate_limit_NoSleep(s) ==
    [s EXCEPT !.last = s.now, !.hist.waits = @ + 1, !.hist.spacing = s.now - s.last]

_respect_rate_limit(s) ==
    LET current_time == s.now
        time_since_last_request == current_time - s.last
        sleep_time == IF time_since_last_request < rate_limit
                      THEN rate_limit - time_since_last_request
                      ELSE 0
        woke == current_time + sleep_time
    IN [s EXCEPT !.now = woke, !.last = woke, !.hist.waits = @ + 1,
                 !.hist.spacing = woke - s.last]

----------------------------------------------------------------------------
(* End of a top-level operation *)

Return(s) == [s EXCEPT !.op.status = "returned", !.req = NoReq]

Raise(s, exc, msg) ==
    [s EXCEPT !.op.status = "raised", !.op.exc = exc, !.op.msg = msg, !.req = NoReq]

\* the running stock_correction has got to one more of its steps
Mark(s, step) == [s EXCEPT !.hist.steps = Append(@, step)]

\* a new _make_request call
StartRequest(s, method, model, endpoint, body) ==
    [s EXCEPT !.req = [active |-> TRUE, method |-> method, model |-> model,
                       endpoint |-> endpoint, attempt |-> 0, body |-> body],
              !.hist.trace = << >>, !.hist.backoffs = << >>, !.hist.calls = 0,
              !.hist.waits = 0]

\* the files of the cache directory are removed when the call ends
EndRequest_DropsCache(s, status, exc, msg) ==
    [s EXCEPT !.req.active = FALSE,
              !.cache = [k \in DOMAIN s.cache |->
                            [exists |-> FALSE, text |-> s.cache[k].text, mtime |-> 0,
                             whole |-> TRUE]],
              !.hist.fin = [status |-> status, exc |-> exc, msg |-> msg,
                            trace |-> s.hist.trace, backoffs |-> s.hist.backoffs,
                            calls |-> s.hist.calls, waits |-> s.hist.waits,
                            model |-> s.req.model, method |-> s.req.method]]

\* the end of a _make_request call, by return or by exception
EndRequest(s, status, exc, msg) ==
    [s EXCEPT !.req.active = FALSE,
              !.hist.fin = [status |-> status, exc |-> exc, msg |-> msg,
                            trace |-> s.hist.trace, backoffs |-> s.hist.backoffs,
                            calls |-> s.hist.calls, waits |-> s.hist.waits,
                            model |-> s.req.model, method |-> s.req.method]]

----------------------------------------------------------------------------
(* Disk cache *)

AvailabilityKey(product_id) == "product_availability_" \o ToString(product_id)

CacheKeys == {"live_products"} \cup {AvailabilityKey(p) : p \in ProductIds}

\* JSON text of a number: its sign and its decimal digits
RECURSIVE Digits(_)
Digits(n) == IF n < 10 THEN << n >> ELSE Append(Digits(n \div 10), n % 10)

RECURSIVE NumberOf(_)
NumberOf(digits) ==
    IF Len(digits) = 1 THEN digits[1]
    ELSE 10 * NumberOf(SubSeq(digits, 1, Len(digits) - 1)) + digits[Len(digits)]

JsonNumber(n) ==
    [t |-> "number", minus |-> n < 0, digits |-> Digits(IF n < 0 THEN 0 - n ELSE n),
     text |-> ""]
JsonString(str) == [t |-> "string", minus |-> FALSE, digits |-> << >>, text |-> str]
JsonLiteral(b) ==
    [t |-> "literal", minus |-> FALSE, digits |-> << >>,
     text |-> IF b THEN "true" ELSE "false"]

\* the JSON text of the value of a product's column
JsonField(name, value) ==
    IF name = "productId" THEN JsonNumber(value)
    ELSE IF name = "stockTracked" THEN JsonLiteral(value)
    ELSE JsonString(value)

\* the value that json.load builds from the text of a scalar
JsonValue(v) ==
    IF v.t = "number" THEN (IF v.minus THEN 0 - NumberOf(v.digits) ELSE NumberOf(v.digits))
    ELSE IF v.t = "literal" THEN v.text = "true"
    ELSE v.text

\* json.dump(data, cache_file): the text of the document
json_dump(data) ==
    [list |-> [i \in 1..Len(data.list) |->
                  [name \in DOMAIN data.list[i] |-> JsonField(name, data.list[i][name])]],
     dict |-> [warehouses |->
                  [w \in DOMAIN data.dict.warehouses |->
                      [onHand |-> JsonNumber(data.dict.warehouses[w].onHand)]]]]

\* json.load(cache_file): the document of the text
json_load(text) ==
    [list |-> [i \in 1..Len(text.list) |->
                  [name \in DOMAIN text.list[i] |-> JsonValue(text.list[i][name])]],
     dict |-> [warehouses |->
                  [w \in DOMAIN text.dict.warehouses |->
                      [onHand |-> JsonValue(text.dict.warehouses[w].onHand)]]]]

\* whole: the text is all of what one json.dump has written
NoFile ==
    [exists |-> FALSE, text |-> json_dump(JsonList(<< >>)), mtime |-> 0, whole |-> TRUE]

\* a file that is exactly cache_minutes old still counts as fresh
_get_cached_data_UpToAndIncluding(s, cache_key, cache_minutes) ==
    IF s.cache[cache_key].exists
       /\ s.now - s.cache[cache_key].mtime <= cache_minutes * 60
    THEN [some |-> TRUE, data |-> json_load(s.cache[cache_key].text)]
    ELSE None

_get_cached_data(s, cache_key, cache_minutes) ==
    IF s.cache[cache_key].exists
       /\ s.now - s.cache[cache_key].mtime < cache_minutes * 60
    THEN [some |-> TRUE, data |-> json_load(s.cache[cache_key].text)]
    ELSE None

\* an existing file is left as it is
_save_to_cache_KeepsFirst(s, cache_key, data) ==
    IF s.cache[cache_key].exists THEN s
    ELSE [s EXCEPT !.cache[cache_key] =
                      [exists |-> TRUE, text |-> json_dump(data), mtime |-> s.now,
                       whole |-> TRUE]]

_save_to_cache(s, cache_key, data) ==
    [s EXCEPT !.cache[cache_key] =
                 [exists |-> TRUE, text |-> json_dump(data), mtime |-> s.now,
                  whole |-> TRUE]]

\* every file of the cache directory is removed
_invalidate_cache_WholeDirectory(s, cache_key) ==
    [s EXCEPT !.cache = [k \in DOMAIN s.cache |-> NoFile]]

\* if os.path.exists(cache_file): os.remove(cache_file)
_invalidate_cache(s, cache_key) ==
    IF s.cache[cache_key].exists
    THEN [s EXCEPT !.cache[cache_key] = NoFile]
    ELSE s

\* the file is looked for under a name that is never written
_invalidate_product_availability_cache_WrongFile(s, product_id) == s

_invalidate_product_availability_cache(s, product_id) ==
    IF s.cache[AvailabilityKey(product_id)].exists
    THEN [s EXCEPT !.cache[AvailabilityKey(product_id)] = NoFile]
    ELSE s

RECURSIVE InvalidateAll(_, _, _)
\* the loop over formatted_corrections in apply_stock_correction
InvalidateAll(s, formatted_corrections, i) ==
    IF i > Len(formatted_corrections) THEN s
    ELSE InvalidateAll(
            _invalidate_product_availability_cache(s, formatted_corrections[i].productId),
            formatted_corrections, i + 1)

----------------------------------------------------------------------------
(* The service *)

\* one page of /product-service/product-search?pageSize=..&firstResult=..
ServerPage(srv, pageSize, firstResult) ==
    LET size == Min(pageSize, srv.cap)
        end == Min(firstResult + size - 1, Len(srv.rows))
        lastResult == IF srv.more = "honest" \/ end >= firstResult THEN end
                      ELSE firstResult
    IN [results |-> SubSeq(srv.rows, firstResult, end),
        metaData |-> [columns |-> Columns,
                      resultsAvailable |-> Len(srv.rows),
                      resultsReturned |-> IF end < firstResult THEN 0
                                          ELSE end - firstResult + 1,
                      firstResult |-> firstResult,
                      lastResult |-> lastResult,
                      morePagesAvailable |-> IF srv.more = "honest"
                                             THEN lastResult < Len(srv.rows)
                                             ELSE TRUE]]

\* /warehouse-service/product-availability/<ids>: one entry per asked id
ServerAvailability(s, product_id) == [warehouses |-> s.stock[product_id]]

EmptyAvailability == [warehouses |-> NoWarehouses]

\* .get(str(warehouse_id), {}).get('onHand', 0)
OnHandAt(warehouses) ==
    IF ToString(warehouse_id) \in DOMAIN warehouses
    THEN warehouses[ToString(warehouse_id)].onHand
    ELSE 0

RECURSIVE ServerApply(_, _, _)
\* the stock after the service has applied corrections i.. of a batch
ServerApply(st, corrections, i) ==
    IF i > Len(corrections) THEN st
    ELSE LET c == corrections[i]
         IN ServerApply(
                [st EXCEPT ![c.productId] = InStock(OnHandAt(@) + c.quantity)],
                corrections, i + 1)

\* the service accepts a batch when every product is known and no stock
\* would become negative
Acceptable(st, corrections) ==
    /\ \A i \in 1..Len(corrections) : corrections[i].productId \in DOMAIN st
    /\ \A p \in DOMAIN st : OnHandAt(ServerApply(st, corrections, 1)[p]) >= 0

\* the corrections of a batch the service has accepted when it answers with
\* count identifiers: the first count of them
Accepted(corrections, count) == SubSeq(corrections, 1, count)

\* answers the service can give to the running request: it answers with one
\* identifier for each correction it has accepted
Feasible(s, o) ==
    (s.req.endpoint = "post" /\ o.kind = "response" /\ o.status \in OkStatuses
        /\ o.count > 0)
    => (/\ o.count <= Len(s.req.body)
        /\ Acceptable(s.stock, Accepted(s.req.body, o.count)))

\* the effect of the request on the service
Served(s, o) ==
    IF s.req.endpoint = "post" /\ o.kind = "response" /\ o.status \in OkStatuses
       /\ o.count > 0
    THEN [s EXCEPT !.stock = ServerApply(s.stock, Accepted(s.req.body, o.count), 1)]
    ELSE s

----------------------------------------------------------------------------
(* Stock correction: client.py, stock_correction and apply_stock_correction *)

Get(dict, key, default) == IF key \in DOMAIN dict THEN dict[key] ELSE default

NoSku == "none"
NoId == 0

\* a SKU that no live product has is taken for the first product
SkuToProductId_AnySku(live_products) ==
    [sku \in {live_products[i]["SKU"] : i \in 1..Len(live_products)}
              \cup {"A", "Z"} |->
        IF \E i \in 1..Len(live_products) : live_products[i]["SKU"] = sku
        THEN live_products[CHOOSE i \in 1..Len(live_products) :
                 /\ live_products[i]["SKU"] = sku
                 /\ \A j \in (i + 1)..Len(live_products) : live_products[j]["SKU"] # sku
             ]["productId"]
        ELSE 1]

\* {product['SKU']: product['productId'] for product in live_products}
SkuToProductId(live_products) ==
    [sku \in {live_products[i]["SKU"] : i \in 1..Len(live_products)} |->
        live_products[CHOOSE i \in 1..Len(live_products) :
            /\ live_products[i]["SKU"] = sku
            /\ \A j \in (i + 1)..Len(live_products) : live_products[j]["SKU"] # sku
        ]["productId"]]

\* first loop: the product id whose availability is fetched
ResolvedId(correction, sku_to_product_id) ==
    IF correction.sku # NoSku THEN sku_to_product_id[correction.sku]
    ELSE correction.productId

\* second loop: correction.get('productId') or sku_to_product_id[correction['sku']]
CorrectedId(correction, sku_to_product_id) ==
    IF correction.productId # NoId THEN correction.productId
    ELSE sku_to_product_id[correction.sku]

\* int(location), location being "0.0.0.0" when the caller passed None
NotAnInt == -1
IntOf(location) == IF location = "53" THEN 53 ELSE NotAnInt

\* the operands are swapped
QuantityDelta_Swapped(new_quantity, current_quantity) == current_quantity - new_quantity

QuantityDelta(new_quantity, current_quantity) == new_quantity - current_quantity

\* only negative deltas are left out
Submitted_NonNegative(correction) == correction.quantity >= 0

\* if quantity_delta != 0
Submitted(correction) == correction.quantity # 0

\* the availability that was fetched is not looked at
CurrentQuantity_Ignored(current_availability, product_id) == 0

CurrentQuantity(current_availability, product_id) ==
    OnHandAt(Get(Get(current_availability, product_id, << >>), "warehouses", << >>))

\* one request for each correction: only the first one is sent here
apply_stock_correction_OneByOne(s, formatted_corrections) ==
    StartRequest(Mark([s EXCEPT !.op.formatted_corrections = formatted_corrections,
                                !.hist.posts = << >>], "submit"),
                 "POST", "list", "post", SubSeq(formatted_corrections, 1, 1))

apply_stock_correction(s, formatted_corrections) ==
    StartRequest(Mark([s EXCEPT !.op.formatted_corrections = formatted_corrections,
                                !.hist.posts = << >>], "submit"),
                 "POST", "list", "post", formatted_corrections)

\* stock_correction from "Get current availability" on, after the lookup
ComputeDeltas(s0) ==
    LET s == Mark(s0, "deltas")
        corrections == s.op.corrections
        sku_to_product_id == SkuToProductId(s.op.live_products)
        current_availability == s.op.result
        all == [i \in 1..Len(corrections) |->
                   LET product_id == CorrectedId(corrections[i], sku_to_product_id)
                   IN [quantity |-> QuantityDelta(corrections[i].new_quantity,
                                      CurrentQuantity(current_availability, product_id)),
                       productId |-> product_id,
                       locationId |-> IntOf(s.op.location)]]
        formatted_corrections == SelectSeq(all, Submitted)
    IN IF Len(formatted_corrections) > 0
       THEN IF IntOf(s.op.location) = NotAnInt
            THEN Raise(s, "ValueError", "invalid literal for int()")
            ELSE apply_stock_correction(s, formatted_corrections)
       ELSE Return([s EXCEPT !.op.formatted_corrections = << >>, !.op.response = 0])

\* the cache entries are dropped before the answer is looked at
PostReturned_InvalidatesFirst(s, o) ==
    LET s1 == InvalidateAll(Mark(s, "invalidate"), s.op.formatted_corrections, 1)
    IN IF o.shape \in {"list", "wrapped_list"} /\ o.count > 0
       THEN Return([s1 EXCEPT !.op.response = o.count])
       ELSE Raise(s1, "BrightPearlApiError", "Failed to apply stock corrections")

\* the answer of the correction endpoint has been decoded
PostReturned(s, o) ==
    IF o.shape \in {"list", "wrapped_list"} /\ o.count > 0
    THEN Return([InvalidateAll(Mark(s, "invalidate"), s.op.formatted_corrections, 1)
                    EXCEPT !.op.response = o.count])
    ELSE Raise(s, "BrightPearlApiError", "Failed to apply stock corrections")

\* the cache entries are dropped although the submission failed
PostRaised_Invalidates(s, exc, msg) ==
    Raise(InvalidateAll(Mark(s, "invalidate"), s.op.formatted_corrections, 1),
          "BrightPearlApiError", "Failed to apply stock corrections")

PostRaised(s, exc, msg) ==
    IF exc = "BrightPearlApiError"
    THEN Raise(s, "BrightPearlApiError", "Failed to apply stock corrections")
    ELSE Raise(s, exc, msg)

----------------------------------------------------------------------------
(* Availability lookup: client.py, get_product_availability *)

\* the return of get_product_availability
AvailabilityDone(s) ==
    IF s.op.gpa_caller = "stock_correction" THEN ComputeDeltas(s) ELSE Return(s)

Put(dict, key, value) ==
    [k \in DOMAIN dict \cup {key} |-> IF k = key THEN value ELSE dict[k]]

RECURSIVE StoreAvailability(_, _, _)
\* for product_id, availability in response.response.items()
StoreAvailability(s, ids, i) ==
    IF i > Len(ids) THEN s
    ELSE LET availability == ServerAvailability(s, ids[i])
             s1 == [s EXCEPT !.op.result = Put(@, ids[i], availability)]
         IN StoreAvailability(
                _save_to_cache(s1, AvailabilityKey(ids[i]), JsonDict(availability)),
                ids, i + 1)

AvailabilityReturned(s) ==
    AvailabilityDone(StoreAvailability(s, s.op.uncached_product_ids, 1))

AvailabilityRaised(s, exc, msg) ==
    IF exc = "BrightPearlApiError"
    THEN AvailabilityDone(
            [s EXCEPT !.op.result =
                [id \in DOMAIN s.op.result \cup Range(s.op.uncached_product_ids) |->
                    IF id \in DOMAIN s.op.result THEN s.op.result[id]
                    ELSE EmptyAvailability]])
    ELSE Raise(s, exc, msg)

\* every id that was passed is asked of the service, cached or not
AvailabilityAfterLive_AsksAll(s, live_products) ==
    LET s1 == [s EXCEPT !.op.result = << >>,
                        !.op.uncached_product_ids = s.op.product_ids]
    IN StartRequest(s1, "GET", "typed", "avail", s.op.product_ids)

\* get_product_availability after its get_all_live_products() has returned
AvailabilityAfterLive(s, live_products) ==
    LET stock_tracked_products ==
            {live_products[i]["productId"] : i \in
                {j \in 1..Len(live_products) : Get(live_products[j], "stockTracked", FALSE)}}
        ids == s.op.product_ids
        cached(id) == _get_cached_data(s, AvailabilityKey(id), s.op.cache_minutes)
        known == {id \in Range(ids) : id \notin stock_tracked_products \/ cached(id).some}
        result == [id \in known |->
                      IF id \notin stock_tracked_products THEN EmptyAvailability
                      ELSE cached(id).data.dict]
        uncached_product_ids ==
            SelectSeq(ids, LAMBDA id : id \in stock_tracked_products /\ ~cached(id).some)
        s1 == [s EXCEPT !.op.result = result,
                        !.op.uncached_product_ids = uncached_product_ids]
    IN IF uncached_product_ids # << >>
       THEN StartRequest(s1, "GET", "typed", "avail", uncached_product_ids)
       ELSE AvailabilityDone(s1)

----------------------------------------------------------------------------
(* Live products: client.py, get_all_live_products, _fetch_all_live_products *)

\* dict(zip(column_names, product_data))
Zip(column_names, product_data) ==
    LET n == Min(Len(column_names), Len(product_data))
    IN [name \in {column_names[i] : i \in 1..n} |->
           product_data[CHOOSE i \in 1..n :
               column_names[i] = name /\ \A j \in (i + 1)..n : column_names[j] # name]]

_format_product_search_response(response, include_non_stock_tracked) ==
    LET column_names == response.metaData.columns
        product_dicts == [i \in 1..Len(response.results) |->
                             Zip(column_names, response.results[i])]
    IN [products |-> SelectSeq(product_dicts,
                        LAMBDA d : include_non_stock_tracked \/ Get(d, "stockTracked", FALSE)),
        metadata |-> response.metaData]

\* one more page request of the walk
FetchPage(s, first_result) ==
    StartRequest([s EXCEPT !.op.first_result = first_result,
                           !.op.pages = Append(@, first_result)],
                 "GET", "typed", "page", << >>)

\* _fetch_all_live_products up to its first request
_fetch_all_live_products(s, include_non_stock_tracked, ctx) ==
    FetchPage([s EXCEPT !.op.live_ctx = ctx,
                        !.op.include_non_stock_tracked = include_non_stock_tracked,
                        !.op.all_products = << >>,
                        !.op.pages = << >>], 1)

RECURSIVE get_all_live_products(_, _, _, _)

\* get_product_availability(product_ids, cache_minutes) up to the first request
get_product_availability(s, product_ids, cache_minutes, caller) ==
    IF product_ids = << >>
    THEN Raise(s, "ValueError", "product_ids must not be empty")
    ELSE get_all_live_products(
            [(IF caller = "stock_correction" THEN Mark(s, "fetch") ELSE s)
                EXCEPT !.op.product_ids = product_ids,
                      !.op.cache_minutes = cache_minutes,
                      !.op.gpa_caller = caller,
                      !.op.result = << >>,
                      !.op.uncached_product_ids = << >>],
            live_products_cache_minutes, FALSE, "get_product_availability")

\* stock_correction after get_all_live_products() has returned: first loop
ResolveIds(s0, live_products) ==
    LET s == Mark(s0, "resolve")
        corrections == s.op.corrections
        sku_to_product_id == SkuToProductId(live_products)
        unknown(c) == c.sku # NoSku /\ c.sku \notin DOMAIN sku_to_product_id
        keyless(c) == c.sku = NoSku /\ c.productId = NoId
        bad == {i \in 1..Len(corrections) : unknown(corrections[i]) \/ keyless(corrections[i])}
        first == CHOOSE i \in bad : \A j \in bad : i <= j
        product_ids == [i \in 1..Len(corrections) |->
                           ResolvedId(corrections[i], sku_to_product_id)]
    IN IF bad # {}
       THEN Raise(s, "ValueError",
                  IF unknown(corrections[first]) THEN "SKU not found in live products"
                  ELSE "Each correction must contain either 'sku' or 'productId'")
       ELSE get_product_availability(s, product_ids, availability_cache_minutes,
                                     "stock_correction")

\* the return of get_all_live_products to its caller
LiveProductsDone(s, live_products) ==
    LET s1 == [s EXCEPT !.op.live_products = live_products]
    IN IF s.op.live_ctx = "stock_correction" THEN ResolveIds(s1, live_products)
       ELSE IF s.op.live_ctx = "get_product_availability"
            THEN AvailabilityAfterLive(s1, live_products)
       ELSE Return(s1)

\* get_all_live_products up to the first request, or with its caller's code
\* that follows when the cached list is returned
get_all_live_products(s, cache_minutes, include_non_stock_tracked, ctx) ==
    LET cached_data == _get_cached_data(s, "live_products", cache_minutes)
    IN IF cached_data.some /\ cached_data.data.list # << >>
       THEN LiveProductsDone(
                [s EXCEPT !.op.live_ctx = ctx,
                          !.op.include_non_stock_tracked = include_non_stock_tracked],
                cached_data.data.list)
       ELSE _fetch_all_live_products(s, include_non_stock_tracked, ctx)

\* the last row of the page is asked for again
NextFirstResult_LastAgain(metadata) == metadata.lastResult

\* first_result = metadata.lastResult + 1
\* the record after lastResult is passed over
NextFirstResult_SkipsOne(metadata) == metadata.lastResult + 2

NextFirstResult(metadata) == metadata.lastResult + 1

\* a page has been decoded: the rest of the loop body, and the code after
\* the loop when it breaks
PageReturned(s) ==
    LET response == ServerPage(s.service, products_per_page, s.op.first_result)
        formatted_response ==
            _format_product_search_response(response, s.op.include_non_stock_tracked)
        metadata == formatted_response.metadata
        all_products == s.op.all_products \o formatted_response.products
        s1 == [s EXCEPT !.op.all_products = all_products]
    IN IF Len(all_products) >= metadata.resultsAvailable \/ ~metadata.morePagesAvailable
       THEN LET live_products ==
                    SelectSeq(all_products, LAMBDA d : Get(d, "productStatus", "none") = "LIVE")
            IN LiveProductsDone(_save_to_cache(s1, "live_products", JsonList(live_products)),
                                live_products)
       ELSE FetchPage(s1, NextFirstResult(metadata))

\* the rows of the pages fetched so far are returned and cached
PageRaised_KeepsPages(s, exc, msg) ==
    LET live_products ==
            SelectSeq(s.op.all_products, LAMBDA d : Get(d, "productStatus", "none") = "LIVE")
    IN LiveProductsDone(_save_to_cache(s, "live_products", JsonList(live_products)),
                        live_products)

PageRaised(s, exc, msg) ==
    IF exc = "BrightPearlApiError"
    THEN Raise(s, "BrightPearlApiError", "Failed to retrieve all products")
    ELSE Raise(s, exc, msg)

\* stock_correction(warehouse_id, location, corrections)
stock_correction(s, location, corrections) ==
    IF corrections = << >>
    THEN Raise(s, "ValueError", "corrections must be a non-empty list of dictionaries")
    ELSE get_all_live_products(
            [s EXCEPT !.op.corrections = corrections, !.op.location = location],
            live_products_cache_minutes, FALSE, "stock_correction")

----------------------------------------------------------------------------
(* Orders: client.py, get_orders_by_status *)

\* a Python value given as status_id: its type and the number it holds or
\* spells. bool is a subclass of int: True is 1 and False is 0
StatusIds ==
    {[type |-> "int", value |-> v] : v \in (0 - 1)..1}
    \cup {[type |-> "bool", value |-> v] : v \in 0..1}
    \cup {[type |-> t, value |-> v] : t \in {"str", "float"}, v \in {0, 42}}
    \cup {[type |-> "NoneType", value |-> 0]}

\* isinstance(status_id, int)
IsInstanceInt(status_id) == status_id.type \in {"int", "bool"}

\* zero passes the test
get_orders_by_status_ZeroPasses(s, status_id, parse_api_results) ==
    LET s1 == [s EXCEPT !.op.status_id = status_id]
    IN IF ~IsInstanceInt(status_id) \/ status_id.value < 0
       THEN Raise(s1, "ValueError", "status_id must be a positive integer")
       ELSE StartRequest(s1, "GET", "typed", "orders", << >>)

\* the test of status_id, then the order search request; what the call
\* returns is built from the decoded response (_parse_api_results)
get_orders_by_status(s, status_id, parse_api_results) ==
    LET s1 == [s EXCEPT !.op.status_id = status_id]
    IN IF ~IsInstanceInt(status_id) \/ status_id.value <= 0
       THEN Raise(s1, "ValueError", "status_id must be a positive integer")
       ELSE StartRequest(s1, "GET", "typed", "orders", << >>)

----------------------------------------------------------------------------
(* The request loop: base_client.py, _make_request *)

\* the caller's code after _make_request has returned
Returned(s, o) ==
    IF s.req.endpoint = "page" THEN PageReturned(s)
    ELSE IF s.req.endpoint = "avail" THEN AvailabilityReturned(s)
    ELSE IF s.req.endpoint = "post" THEN PostReturned(s, o)
    ELSE Return(s)

\* the caller's code after _make_request has raised
Raised(s, exc, msg) ==
    IF s.req.endpoint = "page" THEN PageRaised(s, exc, msg)
    ELSE IF s.req.endpoint = "avail" THEN AvailabilityRaised(s, exc, msg)
    ELSE IF s.req.endpoint = "post" THEN PostRaised(s, exc, msg)
    ELSE Raise(s, exc, msg)

\* the transport is invoked a second time in the same attempt
Invoke_Twice(s, o, latency) ==
    LET s1 == Served(s, o)
    IN [s1 EXCEPT !.hist.calls = @ + 2,
                  !.hist.trace = Append(@, o),
                  !.hist.invokes = 2,
                  !.hist.interval = 0,
                  !.hist.lastInvoke = s.now,
                  !.hist.posts = IF s.req.method = "POST" THEN Append(@, s.req.body) ELSE @,
                  !.hist.asked = IF s.req.endpoint = "avail" THEN Append(@, s.req.body)
                                 ELSE @,
                  !.now = s.now + latency]

\* requests.get / requests.post: the invocation is seen by the transport, the
\* service acts on it and the call takes latency seconds
Invoke(s, o, latency) ==
    LET s1 == Served(s, o)
    IN [s1 EXCEPT !.hist.calls = @ + 1,
                  !.hist.trace = Append(@, o),
                  !.hist.invokes = Min(@ + 1, 2),
                  !.hist.interval = IF s.hist.invokes = 0 THEN 0 ELSE s.now - s.hist.lastInvoke,
                  !.hist.lastInvoke = s.now,
                  !.hist.posts = IF s.req.method = "POST" THEN Append(@, s.req.body) ELSE @,
                  !.hist.asked = IF s.req.endpoint = "avail" THEN Append(@, s.req.body)
                                 ELSE @,
                  !.now = s.now + latency]

\* time.sleep(delay) of _handle_http_error
Backoff(s, delay) ==
    IF delay > 0
    THEN [s EXCEPT !.now = @ + delay, !.hist.backoffs = Append(@, delay)]
    ELSE s

\* one iteration of "for attempt in range(max_retries)", the code after the
\* loop when this was the last one, and the caller's code that follows
Attempt(s, o, latency) ==
    LET attempt == s.req.attempt
        s1 == _respect_rate_limit(s)
    IN IF s.req.method \notin {"GET", "POST"}
       THEN Raised(EndRequest(s1, "raised", "ValueError", "Unsupported HTTP method"),
                   "ValueError", "Unsupported HTTP method")
       ELSE LET s2 == Invoke(s1, o, latency)
                decision == Classify(o, attempt, s.req.model)
            IN IF decision.act = "return"
               THEN Returned(EndRequest(s2, "returned", "none", "none"), o)
               ELSE IF decision.act = "raise"
               THEN Raised(EndRequest(s2, "raised", decision.exc, decision.msg),
                           decision.exc, decision.msg)
               ELSE LET s3 == Backoff(s2, decision.delay)
                    IN IF attempt + 1 < max_retries
                       THEN [s3 EXCEPT !.req.attempt = attempt + 1]
                       ELSE Raised(EndRequest(s3, "raised", "BrightPearlApiError",
                                              "Failed to retrieve data after attempts"),
                                   "BrightPearlApiError",
                                   "Failed to retrieve data after attempts")

----------------------------------------------------------------------------
(* Inputs of the operations *)

Correction(sku, product_id, new_quantity) ==
    [sku |-> sku, productId |-> product_id, new_quantity |-> new_quantity]

\* by product id, by SKU (known or not), or with both keys
CorrectionKeys ==
    << << NoSku, 1 >>, << NoSku, 2 >>, << NoSku, 3 >>, << "A", NoId >>, << "Z", NoId >>,
       << "A", 2 >> >>

Corrections ==
    {Correction(CorrectionKeys[k][1], CorrectionKeys[k][2], q) :
        k \in 1..Len(CorrectionKeys), q \in 0..MaxQty}

KeyIndex(correction) ==
    CHOOSE k \in 1..Len(CorrectionKeys) :
        CorrectionKeys[k] = << correction.sku, correction.productId >>

Lists(S, n) == UNION {[1..m -> S] : m \in 0..n}

\* input lists of stock_correction: items with different keys, listed in the
\* order of CorrectionKeys
Batches ==
    {b \in Lists(Corrections, MaxBatch) :
        \A i, j \in 1..Len(b) : i < j => KeyIndex(b[i]) < KeyIndex(b[j])}

Locations == {"none", "53"}

----------------------------------------------------------------------------
(* Specifications *)

SetState(s) ==
    /\ now' = s.now
    /\ last_request_time' = s.last
    /\ cache' = s.cache
    /\ stock' = s.stock
    /\ service' = s.service
    /\ op' = s.op
    /\ req' = s.req
    /\ hist' = s.hist
    /\ clients' = s.clients
    /\ UNCHANGED << max_retries, rate_limit, callers >>

\* a new top-level call on the client, idle seconds after the last one
Begin(name, idle) ==
    [State EXCEPT !.now = @ + idle,
                  !.op = [NoOp EXCEPT !.name = name, !.status = "running"],
                  !.hist = [NoHist EXCEPT !.nops = hist.nops + 1,
                                          !.lastInvoke = hist.lastInvoke,
                                          !.invokes = hist.invokes,
                                          !.interval = hist.interval,
                                          !.spacing = hist.spacing,
                                          !.faults = hist.faults,
                                          !.saved = hist.saved]]

\* the transport answers the running request
Step ==
    /\ req.active
    /\ \E o \in Outcomes(req.endpoint, Len(req.body)), latency \in Latencies(req.endpoint) :
          /\ Feasible(State, o)
          /\ SetState(Attempt(State, o, latency))

File(data) == [exists |-> TRUE, text |-> json_dump(data), mtime |-> 0, whole |-> TRUE]

LiveList(include_non_stock_tracked) ==
    SelectSeq([i \in 1..Len(Catalogue) |-> Zip(Columns, Catalogue[i])],
              LAMBDA d : d["productStatus"] = "LIVE"
                         /\ (include_non_stock_tracked \/ d["stockTracked"]))

StartStock == [p \in ProductIds |-> IF p = 1 THEN InStock(1) ELSE NoWarehouses]

(* The request loop alone: one caller that does nothing but one           *)
(* _make_request, as get_orders_by_status or warehouse_get_locations, under  *)
(* every configuration and every outcome of the transport                    *)

InitRequest ==
    /\ max_retries \in 1..MaxRetries
    /\ rate_limit \in 1..MaxRateLimit
    /\ now = MaxRateLimit
    /\ last_request_time = 0
    /\ clients = << DefaultClient >>
    /\ cache \in {[k \in CacheKeys |-> NoFile],
                  [k \in CacheKeys |-> IF k = "live_products"
                                       THEN File(JsonList(LiveList(FALSE))) ELSE NoFile]}
    /\ stock = StartStock
    /\ service = DefaultService
    /\ op = NoOp
    /\ req = NoReq
    /\ hist = NoHist
    /\ callers = << >>

CallMakeRequest ==
    /\ op.status = "idle"
    /\ \E call \in {<< "GET", "dict" >>, << "GET", "list" >>, << "GET", "typed" >>,
                      << "POST", "list" >>, << "PUT", "dict" >>} :
          SetState(StartRequest(Begin("_make_request", 0), call[1], call[2],
                                "plain", << >>))

NextRequest ==
    \/ CallMakeRequest
    \/ Step

SpecRequest == InitRequest /\ [][NextRequest]_vars

(* The rate limiter: consecutive callers of _make_request on one client with *)
(* pauses between them, transport calls that take time, under every rate     *)
(* limit                                                                     *)

InitRateLimit ==
    /\ max_retries = default_max_retries
    /\ rate_limit \in 1..MaxRateLimit
    /\ now = MaxRateLimit
    /\ last_request_time = 0
    /\ clients = << DefaultClient >>
    /\ cache = [k \in CacheKeys |-> NoFile]
    /\ stock = StartStock
    /\ service = DefaultService
    /\ op = NoOp
    /\ req = NoReq
    /\ hist = NoHist
    /\ callers = << >>

CallSequentially ==
    /\ op.status # "running"
    /\ hist.nops < MaxCalls
    /\ \E method \in {"GET", "PUT"}, idle \in 0..MaxIdle :
          SetState(StartRequest(Begin("_make_request", idle), method, "dict",
                                "timed", << >>))

NextRateLimit ==
    \/ CallSequentially
    \/ Step

SpecRateLimit == InitRateLimit /\ [][NextRateLimit]_vars

(* The client: one operation on a client constructed with the default       *)
(* configuration over a cache directory that earlier runs may have filled   *)

Init ==
    /\ max_retries = default_max_retries
    /\ rate_limit = default_rate_limit
    /\ now = MaxRateLimit
    /\ last_request_time = 0
    /\ clients = << DefaultClient >>
    /\ cache \in {c \in [CacheKeys -> {NoFile, File(JsonList(LiveList(FALSE))),
                                         File(JsonList(LiveList(TRUE))),
                                         File(JsonDict([warehouses |-> InStock(0)]))}] :
                    /\ c["live_products"] \in {NoFile, File(JsonList(LiveList(FALSE))),
                                                File(JsonList(LiveList(TRUE)))}
                    /\ c[AvailabilityKey(1)] \in
                          {NoFile, File(JsonDict([warehouses |-> InStock(0)]))}
                    /\ \A p \in ProductIds \ {1} : c[AvailabilityKey(p)] = NoFile}
    /\ stock = StartStock
    /\ service = DefaultService
    /\ op = NoOp
    /\ req = NoReq
    /\ hist = NoHist
    /\ callers = << >>

CallGetAllLiveProducts ==
    /\ op.status = "idle"
    /\ \E cache_minutes \in {0, live_products_cache_minutes},
          include_non_stock_tracked \in BOOLEAN :
          SetState(get_all_live_products(Begin("get_all_live_products", 0), cache_minutes,
                                         include_non_stock_tracked, "caller"))

CallGetProductAvailability ==
    /\ op.status = "idle"
    /\ \E product_ids \in Lists(ProductIds, MaxBatch),
          cache_minutes \in {0, availability_cache_minutes} :
          SetState(get_product_availability(Begin("get_product_availability", 0),
                                            product_ids, cache_minutes, "caller"))

CallStockCorrection ==
    /\ op.status = "idle"
    /\ \E corrections \in Batches, location \in Locations :
          SetState(stock_correction(Begin("stock_correction", 0), location, corrections))

Next ==
    \/ CallGetAllLiveProducts
    \/ CallGetProductAvailability
    \/ CallStockCorrection
    \/ Step

Spec == Init /\ [][Next]_vars

(* The page walk: get_all_live_products against services of every size up  *)
(* to MaxRecords rows and one of ManyRecords rows, which put at most cap    *)
(* rows on a page                                                            *)

\* R rows; all LIVE and stock-tracked, or with the flags of Catalogue in turn
Rows(R, mixed) ==
    [i \in 1..R |->
        IF mixed
        THEN LET like == Catalogue[((i - 1) % Len(Catalogue)) + 1]
             IN << i, ToString(i), like[3], like[4] >>
        ELSE << i, ToString(i), "LIVE", TRUE >>]

Services ==
    {[rows |-> Rows(R, mixed), cap |-> cap, more |-> more] :
        R \in 0..MaxRecords, mixed \in BOOLEAN,
        cap \in {ServerPageCap, products_per_page}, more \in {"honest", "always"}}
    \cup {[rows |-> Rows(ManyRecords, FALSE), cap |-> products_per_page,
           more |-> "honest"]}

InitWalk ==
    /\ max_retries = default_max_retries
    /\ rate_limit = default_rate_limit
    /\ now = MaxRateLimit
    /\ last_request_time = 0
    /\ clients = << DefaultClient >>
    /\ cache \in {[k \in CacheKeys |-> NoFile],
                  [k \in CacheKeys |-> IF k = "live_products"
                                       THEN File(JsonList(LiveList(FALSE))) ELSE NoFile]}
    /\ stock = StartStock
    /\ service \in Services
    /\ op = NoOp
    /\ req = NoReq
    /\ hist = NoHist
    /\ callers = << >>

\* the transport answers a page request of a walk that is still followed
StepWalk ==
    /\ Len(op.pages) <= MaxPages
    /\ Step

NextWalk ==
    \/ CallGetAllLiveProducts
    \/ StepWalk

SpecWalk == InitWalk /\ [][NextWalk]_vars

(* The stock correction called again with the same arguments, on a client   *)
(* that starts with an empty cache directory                                *)

InitRepeat ==
    /\ max_retries = default_max_retries
    /\ rate_limit = default_rate_limit
    /\ now = MaxRateLimit
    /\ last_request_time = 0
    /\ clients = << DefaultClient >>
    /\ cache = [k \in CacheKeys |-> NoFile]
    /\ stock = StartStock
    /\ service = DefaultService
    /\ op = NoOp
    /\ req = NoReq
    /\ hist = NoHist
    /\ callers = << >>

\* the caller repeats the call it has just made
CallStockCorrectionAgain ==
    /\ op.name = "stock_correction"
    /\ op.status \in {"returned", "raised"}
    /\ hist.nops = 1
    /\ SetState([stock_correction(Begin("stock_correction", 0), op.location,
                                  op.corrections)
                     EXCEPT !.hist.before = op.status])

Success(o) == o.kind = "response" /\ o.status \in OkStatuses /\ o.shape # "object"

\* the transport answers the running request; the service is out of order
\* at most MaxFaults times
StepFewFaults ==
    /\ req.active
    /\ \E o \in Outcomes(req.endpoint, Len(req.body)) :
          /\ Feasible(State, o)
          /\ Success(o) \/ hist.faults < MaxFaults
          /\ SetState([Attempt(State, o, 0) EXCEPT
                          !.hist.faults = hist.faults + (IF Success(o) THEN 0 ELSE 1)])

NextRepeat ==
    \/ CallStockCorrection
    \/ CallStockCorrectionAgain
    \/ StepFewFaults

SpecRepeat == InitRepeat /\ [][NextRepeat]_vars

(* The cache: one client whose cache functions are called one after the     *)
(* other, with pauses, on two of its keys                                    *)

UsedKeys == {"live_products", AvailabilityKey(1)}

\* documents that the client stores under a key
Documents(cache_key) ==
    IF cache_key = "live_products"
    THEN {JsonList(LiveList(FALSE)), JsonList(LiveList(TRUE))}
    ELSE {JsonDict([warehouses |-> InStock(q)]) : q \in 0..MaxQty}

\* seconds between two calls: none, one, one short of a minute, a minute
Pauses == {0, 1, 59, 60}

Lifetimes == {0, 1, availability_cache_minutes}

InitCache ==
    /\ max_retries = default_max_retries
    /\ rate_limit = default_rate_limit
    /\ now = MaxRateLimit
    /\ last_request_time = 0
    /\ clients = << DefaultClient >>
    /\ cache = [k \in CacheKeys |-> NoFile]
    /\ stock = StartStock
    /\ service = DefaultService
    /\ op = NoOp
    /\ req = NoReq
    /\ hist = NoHist
    /\ callers = << >>

CallSaveToCache ==
    /\ hist.nops < MaxCacheCalls
    /\ \E cache_key \in UsedKeys, idle \in Pauses :
          \E data \in Documents(cache_key) :
             LET s == Begin("_save_to_cache", idle)
                 saves == IF cache_key \in DOMAIN hist.saved
                          THEN hist.saved[cache_key].saves + 1 ELSE 1
             IN SetState(Return([_save_to_cache(s, cache_key, data) EXCEPT
                    !.op.cache_key = cache_key,
                    !.hist.saved = Put(@, cache_key,
                                       [data |-> data, at |-> s.now, saves |-> saves])]))

CallGetCachedData ==
    /\ hist.nops < MaxCacheCalls
    /\ \E cache_key \in UsedKeys, idle \in Pauses, cache_minutes \in Lifetimes :
          LET s == Begin("_get_cached_data", idle)
          IN SetState(Return([s EXCEPT
                 !.op.cache_key = cache_key,
                 !.op.cache_minutes = cache_minutes,
                 !.op.cached = _get_cached_data(s, cache_key, cache_minutes)]))

NextCache ==
    \/ CallSaveToCache
    \/ CallGetCachedData

SpecCache == InitCache /\ [][NextCache]_vars

(* The cache with invalidation: the same calls, and _invalidate_cache       *)

CallInvalidateCache ==
    /\ hist.nops < MaxCacheCalls
    /\ \E cache_key \in UsedKeys, idle \in Pauses :
          LET s == Begin("_invalidate_cache", idle)
          IN SetState(Return([_invalidate_cache(s, cache_key) EXCEPT
                 !.op.cache_key = cache_key]))

NextInvalidate ==
    \/ CallSaveToCache
    \/ CallGetCachedData
    \/ CallInvalidateCache

SpecInvalidate == InitCache /\ [][NextInvalidate]_vars

(* Two clients of different accounts over one cache directory: the files   *)
(* of the directory are kept by name, and a call on a client sees and       *)
(* changes the files that carry the names this client gives to its keys     *)

OtherAccount(brightpearl_app_ref) ==
    Client("https://ws-use.brightpearl.com/public-api/globex", brightpearl_app_ref,
           "token-globex", default_timeout)

\* the second client has another application reference, the same one, or
\* another one with the same first 8 digits of the md5
TwoClients ==
    {<< DefaultClient, OtherAccount("other_app") >>,
     << DefaultClient, OtherAccount("my_app") >>,
     << Client("https://ws-use.brightpearl.com/public-api/acme", "app_111460",
               "token-acme", default_timeout),
        OtherAccount("app_126274") >>}

\* the cache of the model as instance i sees the directory
FilesOf(s, i) ==
    [s EXCEPT !.cache = [k \in CacheKeys |->
                            s.cache[_get_cache_filename(s.clients[i], k)]]]

\* the directory s after a call on instance i has left its files as in v
Written(s, i, v) ==
    [v EXCEPT !.cache =
        [f \in DOMAIN s.cache |->
            IF \E k \in CacheKeys : f = _get_cache_filename(s.clients[i], k)
            THEN v.cache[CHOOSE k \in CacheKeys : f = _get_cache_filename(s.clients[i], k)]
            ELSE s.cache[f]]]

\* the key of an instance in the record of what was saved
OwnKey(i, cache_key) == ToString(i) \o ":" \o cache_key

InitTwoClients ==
    /\ max_retries = default_max_retries
    /\ rate_limit = default_rate_limit
    /\ now = MaxRateLimit
    /\ last_request_time = 0
    /\ clients \in TwoClients
    /\ cache = [f \in {_get_cache_filename(clients[i], k) :
                          i \in 1..Len(clients), k \in CacheKeys} |-> NoFile]
    /\ stock = StartStock
    /\ service = DefaultService
    /\ op = NoOp
    /\ req = NoReq
    /\ hist = NoHist
    /\ callers = << >>

SaveOn ==
    /\ hist.nops < MaxCacheCalls
    /\ \E i \in 1..Len(clients), cache_key \in UsedKeys, idle \in {0, 60} :
          \E data \in Documents(cache_key) :
             LET s == Begin("_save_to_cache", idle)
                 v == _save_to_cache(FilesOf(s, i), cache_key, data)
             IN SetState(Return([Written(s, i, v) EXCEPT
                    !.op.cache_key = cache_key,
                    !.op.client = i,
                    !.hist.saved = Put(@, OwnKey(i, cache_key),
                                       [data |-> data, at |-> s.now, saves |-> 1])]))

GetOn ==
    /\ hist.nops < MaxCacheCalls
    /\ \E i \in 1..Len(clients), cache_key \in UsedKeys, idle \in {0, 60},
          cache_minutes \in Lifetimes :
          LET s == Begin("_get_cached_data", idle)
          IN SetState(Return([s EXCEPT
                 !.op.cache_key = cache_key,
                 !.op.client = i,
                 !.op.cache_minutes = cache_minutes,
                 !.op.cached = _get_cached_data(FilesOf(s, i), cache_key, cache_minutes)]))

InvalidateOn ==
    /\ hist.nops < MaxCacheCalls
    /\ \E i \in 1..Len(clients), cache_key \in UsedKeys, idle \in {0, 60} :
          LET s == Begin("_invalidate_cache", idle)
              v == _invalidate_cache(FilesOf(s, i), cache_key)
          IN SetState(Return([Written(s, i, v) EXCEPT
                 !.op.cache_key = cache_key,
                 !.op.client = i,
                 !.hist.saved = Put(@, OwnKey(i, cache_key),
                                    [data |-> None.data, at |-> s.now, saves |-> 0])]))

NextTwoClients ==
    \/ SaveOn
    \/ GetOn
    \/ InvalidateOn

SpecTwoClients == InitTwoClients /\ [][NextTwoClients]_vars

(* The live products list asked for again and again: get_all_live_products *)
(* on one client, up to MaxLiveCalls times, against catalogues with and      *)
(* without live products                                                     *)

\* the catalogue, its two halves, and a catalogue without products
Shelves ==
    {[rows |-> SubSeq(Catalogue, first, last), cap |-> ServerPageCap, more |-> "honest"] :
        first \in {1, 3}, last \in {0, 2, 4}}

InitLive ==
    /\ max_retries = default_max_retries
    /\ rate_limit = default_rate_limit
    /\ now = MaxRateLimit
    /\ last_request_time = 0
    /\ clients = << DefaultClient >>
    /\ cache = [k \in CacheKeys |-> NoFile]
    /\ stock = StartStock
    /\ service \in Shelves
    /\ op = NoOp
    /\ req = NoReq
    /\ hist = NoHist
    /\ callers = << >>

\* the next get_all_live_products call of the caller, idle seconds after the
\* last one has ended
CallGetAllLiveProductsAgain ==
    /\ ~req.active
    /\ hist.nops < MaxLiveCalls
    /\ \E idle \in {0, 60}, cache_minutes \in {0, 1, live_products_cache_minutes},
          include_non_stock_tracked \in BOOLEAN :
          LET s == Begin("get_all_live_products", idle)
          IN SetState(get_all_live_products(
                          [s EXCEPT !.op.cache_minutes = cache_minutes],
                          cache_minutes, include_non_stock_tracked, "caller"))

\* the record of the last list that was fetched from the service and returned
Fetched(s) ==
    IF s.op.status = "returned" /\ s.op.pages # << >>
    THEN [s EXCEPT !.hist.saved =
            Put(@, "live_products",
                [data |-> JsonList(s.op.live_products), at |-> s.now, saves |-> 1])]
    ELSE s

\* the transport answers the running page request
StepLive ==
    /\ req.active
    /\ \E o \in Outcomes(req.endpoint, Len(req.body)), latency \in Latencies(req.endpoint) :
          /\ Feasible(State, o)
          /\ SetState(Fetched(Attempt(State, o, latency)))

NextLive ==
    \/ CallGetAllLiveProductsAgain
    \/ StepLive

SpecLive == InitLive /\ [][NextLive]_vars

(* Two callers that share one client and enter _make_request at the same   *)
(* time. Nothing in the client orders their statements: a step is one        *)
(* caller's next statement of _respect_rate_limit, and the clock moves on    *)
(* between any two steps                                                     *)

Callers == {1, 2}

InitSharedLimiter ==
    /\ max_retries = default_max_retries
    /\ rate_limit \in 1..MaxRateLimit
    /\ now = MaxRateLimit
    /\ last_request_time = 0
    /\ clients = << DefaultClient >>
    /\ cache = [k \in CacheKeys |-> NoFile]
    /\ stock = StartStock
    /\ service = DefaultService
    /\ op = NoOp
    /\ req = NoReq
    /\ hist = NoHist
    /\ callers = [c \in Callers |-> [pc |-> "limit", sleep_until |-> 0, calls |-> 0]]

\* current_time = time.time(); time_since_last_request = current_time -
\* self._last_request_time; if time_since_last_request < rate_limit
ReadLastRequestTime(c) ==
    /\ callers[c].pc = "limit"
    /\ callers[c].calls < MaxCalls
    /\ LET current_time == now
           time_since_last_request == current_time - last_request_time
           sleep_time == rate_limit - time_since_last_request
       IN callers' = [callers EXCEPT ![c] =
             IF time_since_last_request < rate_limit
             THEN [@ EXCEPT !.pc = "sleep", !.sleep_until = current_time + sleep_time]
             ELSE [@ EXCEPT !.pc = "stamp"]]
    /\ UNCHANGED << clients, max_retries, rate_limit, now, last_request_time, cache,
                    stock, service, op, req, hist >>

\* time.sleep(sleep_time) returns, no sooner than asked
Sleep(c) ==
    /\ callers[c].pc = "sleep"
    /\ now >= callers[c].sleep_until
    /\ callers' = [callers EXCEPT ![c].pc = "stamp"]
    /\ UNCHANGED << clients, max_retries, rate_limit, now, last_request_time, cache,
                    stock, service, op, req, hist >>

\* self._last_request_time = time.time(); _respect_rate_limit returns and
\* the transport is invoked
WriteLastRequestTime(c) ==
    /\ callers[c].pc = "stamp"
    /\ last_request_time' = now
    /\ hist' = [hist EXCEPT
                   !.invokes = Min(@ + 1, 2),
                   !.interval = IF hist.invokes = 0 THEN 0 ELSE now - hist.lastInvoke,
                   !.lastInvoke = now]
    /\ callers' = [callers EXCEPT ![c].pc = "limit", ![c].calls = @ + 1]
    /\ UNCHANGED << clients, max_retries, rate_limit, now, cache, stock, service, op, req >>

\* a second passes
Tick ==
    /\ now < MaxClock
    /\ now' = now + 1
    /\ UNCHANGED << clients, max_retries, rate_limit, last_request_time, cache, stock,
                    service, op, req, hist, callers >>

NextSharedLimiter ==
    \/ \E c \in Callers : ReadLastRequestTime(c)
    \/ \E c \in Callers : Sleep(c)
    \/ \E c \in Callers : WriteLastRequestTime(c)
    \/ Tick

SpecSharedLimiter == InitSharedLimiter /\ [][NextSharedLimiter]_vars

(* Two callers that share one client and its cache files. A step is one    *)
(* caller's next access to a file: _save_to_cache opens the file for         *)
(* writing, which empties it, and the text of json.dump is in the file when  *)
(* the file is closed; _get_cached_data looks at the file's age and then     *)
(* opens and parses it. Two saves of one key do not overlap here             *)

NoCall ==
    [pc |-> "idle", calls |-> 0, cache_key |-> "none", data |-> JsonList(<< >>),
     cache_minutes |-> 0, outcome |-> "none", cached |-> None, wrote |-> {}]

InitSharedCache ==
    /\ max_retries = default_max_retries
    /\ rate_limit = default_rate_limit
    /\ now = MaxRateLimit
    /\ last_request_time = 0
    /\ clients = << DefaultClient >>
    /\ cache = [k \in CacheKeys |-> NoFile]
    /\ stock = StartStock
    /\ service = DefaultService
    /\ op = NoOp
    /\ req = NoReq
    /\ hist = NoHist
    /\ callers = [c \in Callers |-> NoCall]

Resting(c) == callers[c].pc \in {"idle", "saved", "got"} /\ callers[c].calls < MaxCalls

\* _save_to_cache: open(cache_file, 'w')
OpenForWriting(c) ==
    /\ Resting(c)
    /\ \E cache_key \in UsedKeys :
          /\ \A d \in Callers : ~(callers[d].pc = "dump" /\ callers[d].cache_key = cache_key)
          /\ \E data \in Documents(cache_key) :
                /\ callers' = [callers EXCEPT ![c] =
                      [@ EXCEPT !.pc = "dump", !.calls = @ + 1, !.cache_key = cache_key,
                                !.data = data, !.outcome = "none", !.cached = None]]
                /\ cache' = [cache EXCEPT ![cache_key] =
                      [exists |-> TRUE, text |-> json_dump(JsonList(<< >>)), mtime |-> now,
                       whole |-> FALSE]]
    /\ UNCHANGED << clients, max_retries, rate_limit, now, last_request_time, stock,
                    service, op, req, hist >>

\* _save_to_cache: json.dump(data, cache_file), and the file is closed
DumpAndClose(c) ==
    /\ callers[c].pc = "dump"
    /\ cache' = [cache EXCEPT ![callers[c].cache_key] =
          [exists |-> TRUE, text |-> json_dump(callers[c].data), mtime |-> now,
           whole |-> TRUE]]
    /\ callers' = [callers EXCEPT ![c] =
          [@ EXCEPT !.pc = "saved", !.outcome = "returned",
                    !.wrote = @ \cup {<< callers[c].cache_key, callers[c].data >>}]]
    /\ UNCHANGED << clients, max_retries, rate_limit, now, last_request_time, stock,
                    service, op, req, hist >>

\* _get_cached_data: os.path.exists(cache_file) and the test of its age
LookAtFile(c) ==
    /\ Resting(c)
    /\ \E cache_key \in UsedKeys, cache_minutes \in {0, availability_cache_minutes} :
          callers' = [callers EXCEPT ![c] =
              IF cache[cache_key].exists
                 /\ now - cache[cache_key].mtime < cache_minutes * 60
              THEN [@ EXCEPT !.pc = "load", !.calls = @ + 1, !.cache_key = cache_key,
                             !.cache_minutes = cache_minutes, !.outcome = "none",
                             !.cached = None]
              ELSE [@ EXCEPT !.pc = "got", !.calls = @ + 1, !.cache_key = cache_key,
                             !.cache_minutes = cache_minutes, !.outcome = "returned",
                             !.cached = None]]
    /\ UNCHANGED << clients, max_retries, rate_limit, now, last_request_time, cache,
                    stock, service, op, req, hist >>

\* _get_cached_data: open(cache_file, 'r') and json.load(cache_file), which
\* raises json.JSONDecodeError on a text that is not a whole document
LoadFile(c) ==
    /\ callers[c].pc = "load"
    /\ callers' = [callers EXCEPT ![c] =
          IF cache[callers[c].cache_key].whole
          THEN [@ EXCEPT !.pc = "got", !.outcome = "returned",
                         !.cached = [some |-> TRUE,
                                     data |-> json_load(cache[callers[c].cache_key].text)]]
          ELSE [@ EXCEPT !.pc = "got", !.outcome = "JSONDecodeError"]]
    /\ UNCHANGED << clients, max_retries, rate_limit, now, last_request_time, cache,
                    stock, service, op, req, hist >>

NextSharedCache ==
    \/ \E c \in Callers : OpenForWriting(c)
    \/ \E c \in Callers : DumpAndClose(c)
    \/ \E c \in Callers : LookAtFile(c)
    \/ \E c \in Callers : LoadFile(c)

SpecSharedCache == InitSharedCache /\ [][NextSharedCache]_vars

(* Order searches: get_orders_by_status with every kind of status_id, up   *)
(* to MaxCalls calls on one client under every configuration                *)

CallGetOrdersByStatus ==
    /\ op.status # "running"
    /\ hist.nops < MaxCalls
    /\ \E status_id \in StatusIds, parse_api_results \in BOOLEAN :
          SetState(get_orders_by_status(Begin("get_orders_by_status", 0), status_id,
                                        parse_api_results))

NextOrders ==
    \/ CallGetOrdersByStatus
    \/ Step

SpecOrders == InitRequest /\ [][NextOrders]_vars

(* Construction: BrightPearlClient(...) with valid and invalid arguments,   *)
(* and a request on the client that was constructed                          *)

Urls ==
    {"https://ws-use.brightpearl.com/public-api/acme",
     "https://ws-use.brightpearl.com/public-api/acme/",
     "https://ws-use.brightpearl.com/public-api/acme//",
     "http://localhost",
     "ws-use.brightpearl.com/public-api/acme",
     "not_a_url",
     ""}

Kwargs ==
    [api_base_url : Urls,
     brightpearl_app_ref : {"my_app", ""},
     brightpearl_account_token : {"token-acme", ""},
     timeout : {0 - 1, 0, default_timeout},
     max_retries : {0 - 1, 0, 1, default_max_retries},
     rate_limit : {Float(v) : v \in (0 - 1)..MaxRateLimit} \cup {NaN}]

InitConstruct ==
    /\ max_retries = default_max_retries
    /\ rate_limit = default_rate_limit
    /\ now = MaxRateLimit
    /\ last_request_time = 0
    /\ clients = << >>
    /\ cache = [k \in CacheKeys |-> NoFile]
    /\ stock = StartStock
    /\ service = DefaultService
    /\ op = NoOp
    /\ req = NoReq
    /\ hist = NoHist
    /\ callers = << >>

\* BrightPearlClient(**kwargs): _initialize_config raises BrightPearlClientError
\* for a ValidationError; otherwise the instance exists, with _config,
\* _last_request_time = 0.0 and _cache_prefix
Construct ==
    /\ clients = << >>
    /\ op.status = "idle"
    /\ \E kwargs \in Kwargs :
          LET called == [NoOp EXCEPT !.name = "__init__", !.kwargs = kwargs]
          IN IF ValidationErrors(kwargs) # {}
             THEN /\ op' = [called EXCEPT !.status = "raised",
                                          !.exc = "BrightPearlClientError",
                                          !.msg = "Error initializing BrightPearlClient"]
                  /\ UNCHANGED << clients, max_retries, rate_limit, last_request_time >>
             ELSE /\ op' = [called EXCEPT !.status = "returned"]
                  /\ clients' = << BrightPearlClientConfig(kwargs) >>
                  /\ max_retries' = kwargs.max_retries
                  /\ rate_limit' = IF kwargs.rate_limit.nan THEN rate_limit
                                   ELSE kwargs.rate_limit.value
                  /\ last_request_time' = 0
    /\ hist' = [hist EXCEPT !.nops = @ + 1]
    /\ UNCHANGED << now, cache, stock, service, req, callers >>

\* a request on the constructed client
CallOnConstructed ==
    /\ clients # << >>
    /\ ~clients[1].rate_limit.nan
    /\ op.name = "__init__"
    /\ SetState(StartRequest(Begin("_make_request", 0), "GET", "dict", "plain", << >>))

NextConstruct ==
    \/ Construct
    \/ CallOnConstructed
    \/ Step

SpecConstruct == InitConstruct /\ [][NextConstruct]_vars

----------------------------------------------------------------------------
(* Properties of the request loop: SpecRequest *)

Last(seq) == seq[Len(seq)]

AllTimeouts(trace) == \A i \in 1..Len(trace) : trace[i].kind = "timeout"

\* the body can be decoded into what the caller asked for
Fits(response_model, shape) ==
    \/ response_model = "dict"
    \/ response_model = "list" /\ shape \in {"list", "wrapped_list", "wrapped_dict"}
    \/ response_model = "typed" /\ shape = "wrapped_dict"

Ended == hist.fin.status # "none"

\* C1: N < max_retries timeouts followed by a decodable status-200 answer: the
\* call is still running after each of the timeouts, and the answer makes it
\* return after exactly N+1 transport invocations.
C1_TimeoutsThenSuccess ==
    /\ (hist.trace # << >> /\ AllTimeouts(hist.trace) /\ Len(hist.trace) < max_retries)
         => (req.active /\ ~Ended /\ hist.calls = Len(hist.trace))
    /\ \A N \in 0..(max_retries - 1) :
         (/\ Ended
          /\ Len(hist.fin.trace) = N + 1
          /\ AllTimeouts(SubSeq(hist.fin.trace, 1, N))
          /\ Last(hist.fin.trace).kind = "response"
          /\ Last(hist.fin.trace).status = 200
          /\ Fits(hist.fin.model, Last(hist.fin.trace).shape))
         => (/\ hist.fin.status = "returned"
             /\ op.status = "returned"
             /\ hist.fin.calls = N + 1)

C1_Witness ==
    /\ hist.fin.status = "returned"
    /\ hist.fin.calls = 3
    /\ AllTimeouts(SubSeq(hist.fin.trace, 1, 2))
    /\ Last(hist.fin.trace).status = 200

\* C2: an answer with status 429 on attempt k with attempts remaining does not
\* end the call: the client sleeps (k+1)^2 seconds and goes on to attempt k+1.
C2_RateLimitedIsRetried ==
    (/\ hist.trace # << >>
     /\ Last(hist.trace).kind = "response"
     /\ Last(hist.trace).status = 429
     /\ Len(hist.trace) < max_retries)
    => (/\ req.active
        /\ req.attempt = Len(hist.trace)
        /\ hist.backoffs # << >>
        /\ Last(hist.backoffs) = Len(hist.trace) * Len(hist.trace))

\* C3: an answer with a status in [400,600) other than 429 is the last
\* transport invocation of the call, which fails with BrightPearlApiError.
ErrorStatus(o) ==
    /\ o.kind \in {"response", "httperror"}
    /\ 400 <= o.status /\ o.status < 600 /\ o.status # 429

C3_ErrorStatusFailsAtOnce ==
    \A i \in 1..Len(hist.trace) :
        ErrorStatus(hist.trace[i])
        => (/\ i = Len(hist.trace)
            /\ ~req.active
            /\ hist.fin.status = "raised"
            /\ hist.fin.exc = "BrightPearlApiError"
            /\ hist.fin.calls = i
            /\ op.status = "raised" /\ op.exc = "BrightPearlApiError")

C3_Witness ==
    /\ Ended
    /\ max_retries = 3
    /\ hist.fin.calls = 1
    /\ Last(hist.fin.trace).kind = "response"
    /\ Last(hist.fin.trace).status = 500

\* C4: when every attempt times out the call fails with BrightPearlApiError
\* after exactly max_retries transport invocations, and the client never
\* sleeps between them except in the rate limiter.
C4_AllTimeoutsExhaust ==
    (hist.trace # << >> /\ AllTimeouts(hist.trace))
    => (/\ hist.backoffs = << >>
        /\ IF Len(hist.trace) < max_retries
           THEN req.active /\ req.attempt = Len(hist.trace)
           ELSE /\ ~req.active
                /\ hist.fin.status = "raised"
                /\ hist.fin.exc = "BrightPearlApiError"
                /\ hist.fin.calls = max_retries
                /\ hist.fin.backoffs = << >>)

C4_Witness ==
    /\ Ended
    /\ max_retries = 3
    /\ Len(hist.fin.trace) = 3
    /\ AllTimeouts(hist.fin.trace)

\* C5: a generic transport failure before the last attempt lets the call go
\* on; on attempt max_retries-1 it makes the call fail with BrightPearlApiError
\* carrying the message of the failure.
C5_GenericFailure ==
    (hist.trace # << >> /\ Last(hist.trace).kind = "failure")
    => IF Len(hist.trace) < max_retries
       THEN req.active /\ req.attempt = Len(hist.trace) /\ ~Ended
       ELSE /\ ~req.active
            /\ hist.fin.status = "raised"
            /\ hist.fin.exc = "BrightPearlApiError"
            /\ hist.fin.msg = "Request failed after attempts: " \o Last(hist.trace).text
            /\ op.msg = hist.fin.msg

C5_Witness ==
    /\ Ended
    /\ max_retries = 3
    /\ Len(hist.fin.trace) = 3
    /\ hist.fin.trace[1].kind = "failure"
    /\ hist.fin.trace[3].kind = "failure"
    /\ hist.fin.trace[3].text = "Connection refused"
    /\ op.msg = "Request failed after attempts: Connection refused"

\* C6: a call returns a payload only when its last answer had status 200 or
\* 207; such an answer is the last transport invocation of the call, and an
\* answer with any other status never makes the call return.
C6_OnlyOkStatusReturns ==
    /\ hist.fin.status = "returned"
         => (/\ hist.fin.trace # << >>
             /\ Last(hist.fin.trace).kind = "response"
             /\ Last(hist.fin.trace).status \in {200, 207})
    /\ \A i \in 1..Len(hist.trace) :
         hist.trace[i].kind = "response"
         => (/\ i = Len(hist.trace)
             /\ ~req.active
             /\ hist.trace[i].status \notin {200, 207} => hist.fin.status = "raised")

C6_Witness ==
    /\ hist.fin.status = "returned"
    /\ Last(hist.fin.trace).status = 207
    /\ hist.fin.calls = 2

----------------------------------------------------------------------------
(* Properties of the rate limiter: SpecRateLimit *)

\* C7: the rate limiter returns no sooner than rate_limit seconds after its
\* previous return and records that time, so that the starts of two
\* consecutive transport invocations of the client are at least rate_limit
\* seconds apart.
C7_RateLimitRespected ==
    /\ last_request_time # 0 => hist.spacing >= rate_limit
    /\ hist.invokes = 2 => hist.interval >= rate_limit
    /\ hist.invokes > 0 => hist.lastInvoke <= last_request_time

\* two invocations in different calls, the second having had to sleep
C7_Witness ==
    /\ hist.invokes = 2
    /\ hist.nops = 2
    /\ hist.calls = 1
    /\ hist.interval = rate_limit
    /\ rate_limit = 2

----------------------------------------------------------------------------
(* Properties of the stock correction: Spec *)

InCorrection == op.name = "stock_correction"

\* what get_product_availability has reported for the product at the warehouse
ReportedOnHand(product_id) ==
    IF product_id \in DOMAIN op.result
       /\ ToString(warehouse_id) \in DOMAIN op.result[product_id].warehouses
    THEN op.result[product_id].warehouses[ToString(warehouse_id)].onHand
    ELSE 0

\* the input item names the product, by id or else by SKU
Names(item, product_id) ==
    \/ item.productId = product_id
    \/ /\ item.productId = NoId
       /\ \E i \in 1..Len(op.live_products) :
             /\ op.live_products[i]["SKU"] = item.sku
             /\ op.live_products[i]["productId"] = product_id

C9_DeltaIsDesiredMinusOnHand ==
    /\ QuantityDelta(15, 5) = 10
    /\ InCorrection =>
         \A j \in 1..Len(hist.posts) : \A k \in 1..Len(hist.posts[j]) :
            LET c == hist.posts[j][k]
            IN \E i \in 1..Len(op.corrections) :
                  /\ Names(op.corrections[i], c.productId)
                  /\ c.quantity = op.corrections[i].new_quantity - ReportedOnHand(c.productId)

\* a batch with a negative delta and one for a product without warehouse entry
C9_Witness ==
    /\ InCorrection
    /\ \E j \in 1..Len(hist.posts) :
          /\ \E k \in 1..Len(hist.posts[j]) :
                hist.posts[j][k].productId = 1 /\ hist.posts[j][k].quantity = -1
          /\ \E k \in 1..Len(hist.posts[j]) :
                hist.posts[j][k].productId = 2 /\ hist.posts[j][k].quantity = 1

\* C10: no POST body sent by stock_correction holds a correction of quantity 0.
C10_NoZeroDeltaSubmitted ==
    InCorrection =>
        \A j \in 1..Len(hist.posts) : \A k \in 1..Len(hist.posts[j]) :
            hist.posts[j][k].quantity # 0

\* a POST was sent although one of the two input items needed no change
C10_Witness ==
    /\ InCorrection
    /\ hist.posts # << >>
    /\ Len(op.corrections) = 2
    /\ Len(hist.posts[1]) = 1
    /\ \E i \in 1..2 :
          /\ op.corrections[i].productId = 1
          /\ op.corrections[i].new_quantity = ReportedOnHand(1)

Reached(step) == step \in Range(hist.steps)

\* the product id the second loop of stock_correction takes for an input item
ItemId(item) ==
    IF item.productId # NoId THEN item.productId
    ELSE LET i == CHOOSE i \in 1..Len(op.live_products) :
                     op.live_products[i]["SKU"] = item.sku
         IN op.live_products[i]["productId"]

\* every input item asks for the on-hand quantity that the lookup reported
AllAtOnHand ==
    \A i \in 1..Len(op.corrections) :
        op.corrections[i].new_quantity = ReportedOnHand(ItemId(op.corrections[i]))

\* C11: when the desired quantity of every input item equals the on-hand
\* quantity reported for it, stock_correction sends no POST and returns an
\* empty list.
C11_NothingToCorrect ==
    (InCorrection /\ Reached("deltas") /\ AllAtOnHand)
    => (/\ op.status = "returned"
        /\ op.response = 0
        /\ op.formatted_corrections = << >>
        /\ hist.posts = << >>
        /\ ~Reached("submit"))

\* two items, one of a product with stock and one without, nothing to change
C11_Witness ==
    /\ InCorrection /\ Reached("deltas") /\ AllAtOnHand
    /\ Len(op.corrections) = 2
    /\ \E i \in 1..2 : op.corrections[i].new_quantity = 1
    /\ op.status = "returned"

\* the SKUs of the live products that stock_correction has got
LiveSkus == {op.live_products[i]["SKU"] : i \in 1..Len(op.live_products)}

UnknownSku ==
    \E i \in 1..Len(op.corrections) :
        op.corrections[i].sku # NoSku /\ op.corrections[i].sku \notin LiveSkus

\* C12: an input item with a SKU that is not among the live products makes
\* stock_correction fail with ValueError at the resolution of the identifiers:
\* no availability is fetched and no POST is sent in that call.
C12_UnknownSkuFailsBeforePost ==
    (InCorrection /\ Reached("resolve") /\ UnknownSku)
    => (/\ op.status = "raised"
        /\ op.exc = "ValueError"
        /\ op.msg = "SKU not found in live products"
        /\ hist.steps = << "resolve" >>
        /\ hist.posts = << >>)

\* the unknown SKU comes after an item that would have needed a correction
C12_Witness ==
    /\ InCorrection /\ Reached("resolve") /\ UnknownSku
    /\ Len(op.corrections) = 2
    /\ op.corrections[1].productId = 2 /\ op.corrections[1].new_quantity = 1
    /\ op.location = "53"
    /\ op.status = "raised"

----------------------------------------------------------------------------
(* Properties of repeated stock corrections: SpecRepeat *)

StepOrder == << "resolve", "fetch", "deltas", "submit", "invalidate" >>

IsPrefix(a, b) == Len(a) <= Len(b) /\ a = SubSeq(b, 1, Len(a))

Finished == op.status \in {"returned", "raised"}

StepsInOrder ==
    InCorrection =>
        /\ IsPrefix(hist.steps, StepOrder)
        /\ Reached("invalidate")
             => (/\ hist.posts # << >>
                 /\ hist.fin.status = "returned" /\ hist.fin.method = "POST"
                 /\ op.status = "returned" /\ op.response > 0)
        /\ op.status = "returned"
             => \/ hist.steps = SubSeq(StepOrder, 1, 3) /\ op.response = 0
                \/ hist.steps = StepOrder /\ op.response > 0

StepsOnlyForward ==
    InCorrection =>
        /\ Finished => (hist'.nops = hist.nops + 1 /\ IsPrefix(hist'.steps, StepOrder))
        /\ ~Finished => (hist'.nops = hist.nops /\ IsPrefix(hist.steps, hist'.steps))
        /\ (\E k \in CacheKeys : cache[k].exists /\ ~cache'[k].exists)
             => (/\ hist.steps = SubSeq(StepOrder, 1, 4)
                 /\ hist'.steps = StepOrder)

\* C13: the steps of one stock_correction call happen in the order resolve,
\* fetch availability, compute deltas, and then either the call returns an
\* empty result or it submits, invalidates and returns; cache entries are
\* only dropped by the invalidation that follows a successful submission of
\* the same call; a call that has ended takes no further step, and a new call
\* starts again from the resolution.
C13_StepsInOrder == [](StepsInOrder) /\ [][StepsOnlyForward]_vars

\* a repeated call that went through all the steps after the first had failed
C13_Witness ==
    /\ InCorrection
    /\ hist.nops = 2
    /\ hist.steps = StepOrder
    /\ op.status = "returned"
    /\ stock[2] = InStock(1)

----------------------------------------------------------------------------
(* Properties of the submission: Spec *)

NonZeroDelta(item) == item.new_quantity # ReportedOnHand(ItemId(item))

\* the corrections of all input items that need one, in input order
ExpectedBatch ==
    LET items == SelectSeq(op.corrections, NonZeroDelta)
    IN [i \in 1..Len(items) |->
           [quantity |-> items[i].new_quantity - ReportedOnHand(ItemId(items[i])),
            productId |-> ItemId(items[i]),
            locationId |-> IntOf(op.location)]]

\* C15: when some input item has a non-zero delta, stock_correction submits,
\* and the body of every POST it sends is the list of the corrections of all
\* items with a non-zero delta, in input order: the batch goes out whole.
C15_WholeBatchInOnePost ==
    (InCorrection /\ Reached("deltas"))
    => /\ \A j \in 1..Len(hist.posts) : hist.posts[j] = ExpectedBatch
       /\ ExpectedBatch # << >>
            => \/ Reached("submit") /\ op.formatted_corrections = ExpectedBatch
               \/ op.status = "raised" /\ op.exc = "ValueError" /\ hist.posts = << >>
       /\ (ExpectedBatch # << >> /\ Finished /\ Reached("submit")) => hist.posts # << >>

\* the corrections of two input items went out in one body, in input order
C15_Witness ==
    /\ InCorrection /\ op.status = "returned"
    /\ hist.posts # << >>
    /\ Len(Last(hist.posts)) = 2
    /\ Last(hist.posts)[1].productId = 1
    /\ Last(hist.posts)[2].productId = 2

----------------------------------------------------------------------------
(* Properties of the page walk: SpecWalk *)

\* get_all_live_products has gone to the service
Walked == op.name = "get_all_live_products" /\ op.pages # << >>

Honest == service.more = "honest"

Records == Len(service.rows)

\* the rows the service puts on a page when products_per_page are asked for
PageSize == Min(products_per_page, service.cap)

Ceil(a, b) == (a + b - 1) \div b

AtLeastOne(n) == IF n < 1 THEN 1 ELSE n

\* firstResult of n pages that follow each other
FirstResults(n) == [i \in 1..n |-> 1 + (i - 1) * PageSize]

AllLiveTracked ==
    \A i \in 1..Records : service.rows[i][3] = "LIVE" /\ service.rows[i][4]

\* the page requests of the walk are the first pages, n at the end of it
WalkTakes(n) ==
    /\ IsPrefix(op.pages, FirstResults(n))
    /\ \A i \in 2..Len(op.pages) :
          op.pages[i] = ServerPage(service, products_per_page,
                                   op.pages[i - 1]).metaData.lastResult + 1
    /\ op.status = "returned"
         => (/\ Len(op.pages) = n
             /\ AllLiveTracked
                  => op.live_products = [i \in 1..Records |-> Zip(Columns, service.rows[i])])

\* C16 as stated: against a service with R rows that pages them honestly the
\* walk makes exactly ceil(R / page size) page requests, each starting at
\* the previous lastResult + 1, and returns all R rows when all are LIVE and
\* stock-tracked.
C16_CeilPageRequests ==
    (Walked /\ Honest) => WalkTakes(Ceil(Records, PageSize))

\* C16, amended: the walk makes exactly max(1, ceil(R / page size)) page
\* requests with firstResult 1, 1 + page size, ..., each the previous
\* lastResult + 1, and returns all R rows when all are LIVE and stock-tracked;
\* 1200 rows in pages of 500 take 3 requests from 1, 501 and 1001.
C16_AtLeastOnePageRequest ==
    (Walked /\ Honest) => WalkTakes(AtLeastOne(Ceil(Records, PageSize)))

\* the large service has been walked in three pages
C16_Witness ==
    /\ Walked /\ Honest /\ op.status = "returned"
    /\ Records = ManyRecords
    /\ PageSize = products_per_page
    /\ op.pages = << 1, 501, 1001 >>
    /\ Len(op.live_products) = Records

\* C17: against a service whose resultsAvailable never grows and whose
\* lastResult grows with every page, the walk ends: at the latest when
\* lastResult has reached resultsAvailable, so that it never asks for a page
\* that starts beyond resultsAvailable.
C17_WalkEndsAtResultsAvailable ==
    (Walked /\ op.status = "running") => op.first_result <= AtLeastOne(Records)

\* a page request of the walk has failed
PageFailed == Walked /\ hist.fin.status = "raised"

WalkFailsWhole ==
    PageFailed
    => (/\ op.status = "raised"
        /\ op.live_products = << >>
        /\ hist.fin.exc = "BrightPearlApiError"
             => (op.exc = "BrightPearlApiError"
                 /\ op.msg = "Failed to retrieve all products"))

\* no step of a walk that goes on or fails touches the cache directory
NothingCachedUnlessReturned ==
    (op'.name = "get_all_live_products" /\ op'.status \in {"running", "raised"})
    => cache' = cache

----------------------------------------------------------------------------
(* Properties of the cache: SpecCache *)

Got == op.name = "_get_cached_data"

\* C19: a _get_cached_data made less than cache_minutes after the most recent
\* _save_to_cache on its key returns the document of that save, whatever was
\* saved under the key before.
C19_GetReturnsLatestSave ==
    (/\ Got
     /\ op.cache_key \in DOMAIN hist.saved
     /\ now - hist.saved[op.cache_key].at < op.cache_minutes * 60)
    => (/\ op.cached.some
        /\ op.cached.data = hist.saved[op.cache_key].data)

\* the second document saved under the key is read back 59 seconds later
C19_Witness ==
    /\ Got
    /\ op.cache_key = "live_products"
    /\ op.cache_key \in DOMAIN hist.saved
    /\ hist.saved[op.cache_key].saves = 2
    /\ now - hist.saved[op.cache_key].at = 59
    /\ op.cache_minutes = 1
    /\ op.cached.some
    /\ op.cached.data = JsonList(LiveList(TRUE))

StaleIsAbsent ==
    (/\ Got
     /\ cache[op.cache_key].exists
     /\ now - cache[op.cache_key].mtime >= op.cache_minutes * 60)
    => ~op.cached.some

GetLeavesFiles == (op'.name = "_get_cached_data" /\ hist'.nops # hist.nops) => cache' = cache

\* C20: _get_cached_data on a file written cache_minutes or more ago returns
\* None, and no _get_cached_data changes a file of the cache directory or
\* its write time.
C20_StaleIsAbsentAndKept == [](StaleIsAbsent) /\ [][GetLeavesFiles]_vars

\* a file that is exactly one minute old is read with cache_minutes = 1
C20_Witness ==
    /\ Got
    /\ op.cache_minutes = 1
    /\ cache[op.cache_key].exists
    /\ now - cache[op.cache_key].mtime = 60
    /\ ~op.cached.some
    /\ json_load(cache[op.cache_key].text) = hist.saved[op.cache_key].data

----------------------------------------------------------------------------
(* Properties of the invalidation: SpecInvalidate *)

Invalidated == op.name = "_invalidate_cache"

\* after _invalidate_cache the file is gone, a get finds nothing whatever the
\* lifetime, and one more invalidation changes nothing
InvalidatedIsAbsent ==
    Invalidated
    => (/\ op.status = "returned"
        /\ ~cache[op.cache_key].exists
        /\ \A cache_minutes \in Lifetimes :
              ~_get_cached_data(State, op.cache_key, cache_minutes).some
        /\ _invalidate_cache(State, op.cache_key) = State
        /\ _invalidate_product_availability_cache(State, 1)
              = _invalidate_cache(State, AvailabilityKey(1)))

\* the step of an invalidation, and the step after it
InvalidateOnlyItsKey ==
    /\ (op'.name = "_invalidate_cache" /\ hist'.nops # hist.nops)
         => (/\ \A k \in CacheKeys \ {op'.cache_key} : cache'[k] = cache[k]
             /\ ~cache[op'.cache_key].exists => cache' = cache)
    /\ (Invalidated /\ op'.name = "_get_cached_data" /\ op'.cache_key = op.cache_key)
         => ~op'.cached.some

----------------------------------------------------------------------------
(* Properties of two clients over one directory: SpecTwoClients *)

\* what a get on instance i returns when only the saves and invalidations
\* made on this instance count
OwnAnswer(i, cache_key, cache_minutes) ==
    LET own == OwnKey(i, cache_key)
    IN IF own \in DOMAIN hist.saved
          /\ hist.saved[own].saves > 0
          /\ now - hist.saved[own].at < cache_minutes * 60
       THEN [some |-> TRUE, data |-> hist.saved[own].data]
       ELSE None

\* C22: with two clients of different accounts over one cache directory, what
\* a get on one client returns for a key depends only on the saves and the
\* invalidations made on that client: those made on the other client under
\* the same key never change it.
C22_ClientsDoNotCollide ==
    \A i \in 1..Len(clients), cache_key \in UsedKeys, cache_minutes \in Lifetimes :
        _get_cached_data(FilesOf(State, i), cache_key, cache_minutes)
            = OwnAnswer(i, cache_key, cache_minutes)

----------------------------------------------------------------------------
(* Failures of the availability lookup *)

\* the availability request of a caller's get_product_availability has ended
\* by exception
AvailabilityRequestFailed ==
    /\ op.name = "get_product_availability"
    /\ op.status # "running"
    /\ op.uncached_product_ids # << >>
    /\ hist.fin.model = "typed"
    /\ hist.fin.status = "raised"

\* C23: when the availability request of get_product_availability fails, by
\* an error status or by exhausted transport failures, get_product_availability
\* raises to its caller; it does not return data in place of the failure
C23_AvailabilityFailureSurfaces ==
    AvailabilityRequestFailed => op.status = "raised"

----------------------------------------------------------------------------
(* Properties of repeated get_all_live_products calls: SpecLive *)

\* a list was fetched from the service and returned, and the call that begins
\* in this step is made less than its cache_minutes after that
FreshCallBegins ==
    /\ hist'.nops = hist.nops + 1
    /\ op'.name = "get_all_live_products"
    /\ "live_products" \in DOMAIN hist.saved
    /\ now' - hist.saved["live_products"].at < op'.cache_minutes * 60

\* the call is answered from the cache: it returns the list fetched last and
\* starts no request
AnsweredFromCache ==
    /\ op'.status = "returned"
    /\ op'.live_products = hist.saved["live_products"].data.list
    /\ op'.pages = << >>
    /\ ~req'.active
    /\ hist' = [hist EXCEPT !.nops = @ + 1, !.trace = << >>, !.backoffs = << >>,
                            !.calls = 0, !.waits = 0, !.fin = NoFin,
                            !.posts = << >>, !.steps = << >>]

\* C24: once get_all_live_products has fetched the list from the service and
\* returned it, every further get_all_live_products call made less than its
\* cache_minutes later returns that list from the cache, without a transport
\* invocation
C24_FreshListIsReused ==
    [][FreshCallBegins => AnsweredFromCache]_vars

----------------------------------------------------------------------------
(* Properties of a client shared by concurrent callers: SpecSharedLimiter, *)
(* SpecSharedCache                                                           *)

\* C25: when two callers make requests on one client at the same time, the
\* starts of two consecutive transport invocations of the client are still at
\* least rate_limit seconds apart, however the statements of their
\* _respect_rate_limit calls interleave
C25_SharedLimiterNotBypassed ==
    hist.invokes = 2 => hist.interval >= rate_limit

\* a document that some _save_to_cache call has written completely under the key
WrittenCompletely(cache_key, data) ==
    \E d \in Callers : << cache_key, data >> \in callers[d].wrote

\* C26: on a client used by concurrent callers, a _get_cached_data call that
\* has ended has returned None or a document that some _save_to_cache call
\* wrote completely under its key; it has never met a half-written file
C26_NoHalfWrittenRead ==
    \A c \in Callers :
        callers[c].pc = "got"
            => /\ callers[c].outcome = "returned"
               /\ \/ ~callers[c].cached.some
                  \/ WrittenCompletely(callers[c].cache_key, callers[c].cached.data)

----------------------------------------------------------------------------
(* Properties of get_orders_by_status: SpecOrders *)

\* status_id is not an integer, or it is not positive
InvalidStatusId(status_id) == ~IsInstanceInt(status_id) \/ status_id.value <= 0

RejectedOrderSearch == op.name = "get_orders_by_status" /\ InvalidStatusId(op.status_id)

\* C27: get_orders_by_status with a status_id that is not an integer or not
\* positive raises ValueError, and the call touches nothing on its way: no
\* rate limiter wait, no sleep, no transport invocation, no request started
C27_InvalidStatusIdFailsFirst ==
    /\ [](RejectedOrderSearch
            => /\ op.status = "raised"
               /\ op.exc = "ValueError"
               /\ ~req.active
               /\ hist.waits = 0
               /\ hist.calls = 0
               /\ hist.fin = NoFin)
    /\ [][RejectedOrderSearch' /\ hist'.nops = hist.nops + 1
            => /\ now' = now
               /\ last_request_time' = last_request_time
               /\ hist'.invokes = hist.invokes
               /\ hist'.lastInvoke = hist.lastInvoke
               /\ cache' = cache]_vars

\* get_orders_by_status("42") is rejected on a client that has made a request
\* before
C27_Witness ==
    /\ RejectedOrderSearch
    /\ op.status_id = [type |-> "str", value |-> 42]
    /\ op.status = "raised"
    /\ hist.nops = 2
    /\ hist.invokes > 0

----------------------------------------------------------------------------
(* Properties of the construction: SpecConstruct *)

EmptyCredential(config) ==
    config.brightpearl_app_ref = "" \/ config.brightpearl_account_token = ""

\* C28: the construction of a client with an empty application reference or
\* an empty account token raises BrightPearlClientError, and no client that
\* exists has an empty credential
C28_EmptyCredentialFailsFast ==
    /\ \A i \in 1..Len(clients) : ~EmptyCredential(clients[i])
    /\ (op.name = "__init__" /\ EmptyCredential(op.kwargs))
          => op.status = "raised" /\ op.exc = "BrightPearlClientError"

\* the configuration the specification asks of every client
ValidConfig(config) ==
    /\ config.timeout > 0
    /\ config.max_retries > 0
    /\ ~config.rate_limit.nan /\ config.rate_limit.value > 0
    /\ IsHttpUrl(config.api_base_url)
    /\ SubSeq(config.api_base_url, Len(config.api_base_url), Len(config.api_base_url)) # "/"

\* arguments that the constructor has to refuse
RefusedKwargs(kwargs) ==
    \/ kwargs.timeout <= 0
    \/ kwargs.max_retries <= 0
    \/ FloatLessEq(kwargs.rate_limit, 0)
    \/ ~IsHttpUrl(kwargs.api_base_url)

\* C29: the construction with timeout <= 0, max_retries <= 0, rate_limit <= 0
\* or a malformed base URL raises BrightPearlClientError; every client that
\* exists has timeout > 0, max_retries > 0, rate_limit > 0 and a base URL that
\* does not end with "/"; and no step changes the configuration of a client
\* that exists
C29_ConfigurationValidAndKept ==
    /\ [](/\ \A i \in 1..Len(clients) : ValidConfig(clients[i])
          /\ (op.name = "__init__" /\ RefusedKwargs(op.kwargs))
                => op.status = "raised" /\ op.exc = "BrightPearlClientError")
    /\ [][clients # << >>
            => /\ clients' = clients
               /\ max_retries' = max_retries
               /\ rate_limit' = rate_limit]_vars

----------------------------------------------------------------------------
(* Frame of the request loop: SpecRequest *)

\* C30: _make_request neither writes nor removes a cache file: in every step
\* of a _make_request call, from its start to its return or its exception,
\* the files of the cache directory stay as they are
C30_RequestLeavesCache ==
    [][cache' = cache]_vars

\* a call over a directory that holds a cache file has ended by exception
\* after a retry
C30_Witness ==
    /\ hist.fin.status = "raised"
    /\ hist.fin.calls = 2
    /\ cache["live_products"].exists

----------------------------------------------------------------------------
(* The shape of the request loop: SpecRequest *)

\* a step of a running _make_request call
InRequest == req.active /\ hist'.nops = hist.nops

\* C31: whatever the transport answers, a _make_request call invokes it at
\* most max_retries times; every attempt either ends the call, by return or
\* by exception, or is followed by the next of at most max_retries attempts,
\* so the call ends; and every transport invocation comes right after one
\* _respect_rate_limit call of its own
C31_BoundedAttemptsEachAfterOneWait ==
    /\ [](/\ hist.calls <= max_retries
          /\ hist.calls <= hist.waits
          /\ req.active => req.attempt < max_retries /\ hist.calls = req.attempt
          /\ Ended => hist.fin.status \in {"returned", "raised"}
                      /\ hist.fin.calls <= max_retries)
    /\ [][InRequest
            => /\ \/ ~req'.active /\ hist'.fin.status \in {"returned", "raised"}
                  \/ req'.active /\ req'.attempt = req.attempt + 1
               /\ hist'.waits = hist.waits + 1
               /\ hist'.calls \in {hist.calls, hist.calls + 1}
               /\ hist'.calls = hist.calls + 1
                     => /\ hist'.lastInvoke = last_request_time'
                        /\ Len(hist'.trace) = Len(hist.trace) + 1]_vars

\* a timeout, a connection failure and then an answer: three invocations,
\* three waits
C31_Witness ==
    /\ max_retries = 3
    /\ hist.fin.status = "returned"
    /\ hist.fin.calls = 3
    /\ hist.fin.waits = 3
    /\ hist.fin.trace[1].kind = "timeout"
    /\ hist.fin.trace[2].kind = "failure"

----------------------------------------------------------------------------
(* What the page walk returns: SpecWalk *)

\* the rows as the walk sees them, with the names of their columns
Records_(rows) == [i \in 1..Len(rows) |-> Zip(Columns, rows[i])]

\* the records that pass the stock tracking test of a walk
Wanted(records, include_non_stock_tracked) ==
    SelectSeq(records, LAMBDA d : include_non_stock_tracked \/ d["stockTracked"])

Live(records) == SelectSeq(records, LAMBDA d : d["productStatus"] = "LIVE")

\* C32: a walk that returns has returned exactly the rows of the service that
\* are LIVE and, unless include_non_stock_tracked is set, stock tracked: each
\* once, in the order of the service. While it runs it holds exactly the
\* wanted rows before the page it is asking for, so that no row is lost or
\* doubled where two pages meet, and it does not end before the last row
C32_WalkReturnsTheLiveRows ==
    Walked =>
        /\ op.status = "returned"
              => op.live_products =
                    Live(Wanted(Records_(service.rows), op.include_non_stock_tracked))
        /\ op.status = "running"
              => op.all_products =
                    Wanted(Records_(SubSeq(service.rows, 1,
                                           Min(op.first_result - 1, Len(service.rows)))),
                           op.include_non_stock_tracked)

\* five rows in three pages, two of them not wanted
C32_Witness ==
    /\ Walked /\ Honest /\ op.status = "returned"
    /\ Len(service.rows) = 5
    /\ op.pages = << 1, 3, 5 >>
    /\ ~op.include_non_stock_tracked
    /\ Len(op.live_products) = 3

----------------------------------------------------------------------------
(* What get_product_availability asks of the service: Spec *)

\* the ids of the stock tracked products of the list the lookup has obtained
StockTracked ==
    {op.live_products[i]["productId"] : i \in
        {j \in 1..Len(op.live_products) : op.live_products[j]["stockTracked"]}}

FreshlyCached(product_id) ==
    _get_cached_data(State, AvailabilityKey(product_id), op.cache_minutes).some

\* the ids that are passed, stock tracked and without a fresh cache entry
Needed == SelectSeq(op.product_ids,
                    LAMBDA id : id \in StockTracked /\ ~FreshlyCached(id))

AvailabilityRequest == req.active /\ req.endpoint = "avail"

C33_NothingAsked ==
    /\ op.name = "get_product_availability" /\ op.status = "returned"
    /\ op.product_ids = << 1, 3 >>
    /\ hist.asked = << >>

----------------------------------------------------------------------------
(* A submission that fails: Spec *)

Submitting == req.active /\ req.endpoint = "post"

\* the POST has ended without a list of at least one correction id
SubmissionFailed ==
    /\ InCorrection /\ Reached("submit") /\ ~req.active
    /\ hist.fin.method = "POST"
    /\ \/ hist.fin.status = "raised"
       \/ Last(hist.fin.trace).shape \notin {"list", "wrapped_list"}
       \/ Last(hist.fin.trace).count = 0

\* C34: a correction POST that ends with an error status, without an answer
\* after the last attempt, or with an empty or unexpected answer makes the
\* call raise BrightPearlApiError; no step of it is the invalidation, and no
\* step of the submission that does not end in a return changes a cache file.
C34_FailedSubmissionLeavesCache ==
    /\ [](SubmissionFailed
            => /\ op.status = "raised" /\ op.exc = "BrightPearlApiError"
               /\ ~Reached("invalidate"))
    /\ [][(Submitting /\ op'.status # "returned") => cache' = cache]_vars

\* product 1 had a fresh cache entry when its correction was refused with
\* status 500 at every attempt: the entry is still there
C34_Witness ==
    /\ SubmissionFailed
    /\ hist.fin.status = "raised"
    /\ Len(hist.fin.trace) = max_retries
    /\ Last(hist.fin.trace).status = 500
    /\ \E i \in 1..Len(op.formatted_corrections) :
          /\ op.formatted_corrections[i].productId = 1
          /\ cache[AvailabilityKey(1)].exists

\* the same after an answer that is an empty list
C34_EmptyAnswer ==
    /\ SubmissionFailed
    /\ hist.fin.status = "returned"
    /\ Last(hist.fin.trace).shape = "list" /\ Last(hist.fin.trace).count = 0
    /\ cache[AvailabilityKey(op.formatted_corrections[1].productId)].exists

----------------------------------------------------------------------------
(* Deltas and the on-hand quantities they are computed from: Spec *)

\* the availability request of the running stock_correction has ended with an
\* exception, and nothing has ended since
AvailabilityFetchFailed ==
    /\ InCorrection /\ hist.asked # << >>
    /\ hist.fin.method = "GET" /\ hist.fin.status = "raised"
    /\ Reached("deltas")

C36_BatchSentAtMostOnce == InCorrection => Len(hist.posts) <= 1

----------------------------------------------------------------------------
(* A stock_correction that is repeated at once: SpecRepeat *)

\* the second of two identical calls, the first of which has returned
RepeatedAfterSuccess == InCorrection /\ hist.nops = 2 /\ hist.before = "returned"

\* C37: when a stock_correction has returned and the same call is made again
\* at once, the second call sends no POST, and when it has computed its
\* deltas it has found none to submit and returns an empty list.
C37_RepeatedCallSubmitsNothing ==
    RepeatedAfterSuccess
        => /\ hist.posts = << >>
           /\ ~Reached("submit")
           /\ op.status = "returned"
                => op.response = 0 /\ op.formatted_corrections = << >>

----------------------------------------------------------------------------
(* The product an item is looked up by and the one it corrects: Spec *)

\* C38: in a stock_correction that submits, every input item that gets a
\* correction is corrected under the product id under which its on-hand
\* quantity was looked up.
C38_LookedUpIsSubmitted ==
    (InCorrection /\ Reached("submit"))
        => \A i \in 1..Len(op.corrections) :
              NonZeroDelta(op.corrections[i])
                 => op.product_ids[i] = ItemId(op.corrections[i])

----------------------------------------------------------------------------
(* What get_all_live_products returns for its flag: SpecLive *)

\* C39: a get_all_live_products call that returns has returned the LIVE rows
\* of the service, with those that are not stock tracked when
\* include_non_stock_tracked is set and without them when it is not, whatever
\* the earlier calls have asked for.
C39_ResultFollowsOwnFlag ==
    (op.name = "get_all_live_products" /\ op.status = "returned")
        => op.live_products =
              Live(Wanted(Records_(service.rows), op.include_non_stock_tracked))

----------------------------------------------------------------------------
(* A payload of the wrong shape where a list is expected: SpecRequest *)

\* an answer with status 200 or 207 whose payload is neither a list nor an
\* object with a response field
Misshaped(o) ==
    /\ o.kind = "response" /\ o.status \in OkStatuses
    /\ o.shape \notin {"list", "wrapped_list", "wrapped_dict"}

\* C40: when a list is expected, a 200 or 207 answer whose payload is neither
\* a list nor an object with a response field ends the call at once: it is the
\* last outcome of the call, the call has raised BrightPearlApiError
\* "Unexpected response format" after exactly the invocations made so far, and
\* no call that is still running has seen such an answer.
C40_WrongShapeFailsAtOnce ==
    /\ (req.active /\ req.model = "list")
          => \A i \in 1..Len(hist.trace) : ~Misshaped(hist.trace[i])
    /\ (Ended /\ hist.fin.model = "list")
          => \A i \in 1..Len(hist.fin.trace) :
                Misshaped(hist.fin.trace[i])
                   => /\ i = Len(hist.fin.trace)
                      /\ hist.fin.calls = i
                      /\ hist.fin.status = "raised"
                      /\ hist.fin.exc = "BrightPearlApiError"
                      /\ hist.fin.msg = "Unexpected response format"
                      /\ op.status = "raised" /\ op.exc = "BrightPearlApiError"

\* three attempts were allowed; the first answer, status 207 with an object
\* without a response field, ended the call
C40_Witness ==
    /\ max_retries = 3
    /\ Ended /\ hist.fin.model = "list"
    /\ Len(hist.fin.trace) = 1
    /\ Misshaped(hist.fin.trace[1])
    /\ hist.fin.trace[1].status = 207 /\ hist.fin.trace[1].shape = "object"
    /\ hist.fin.status = "raised" /\ hist.fin.calls = 1

====
